---- MODULE Spec2Model ----
(***************************************************************************)
(* The streaming-progress coordinator of the mention bot:                  *)
(*   - the mention handler of src/index.ts (cancel-button variant),        *)
(*     with its debounced progress edits (updateProgress), keepalive       *)
(*     ticker and teardown;                                                *)
(*   - the dispatch layer of the bot module (src/unnamed/part_002):        *)
(*     the cancel registry, the InteractionCreate handler and the          *)
(*     try/catch around the mention handler.                               *)
(* Every handler runs on one event loop: an action is the code that runs   *)
(* between two suspension points (await, timer, incoming event).           *)
(***************************************************************************)
EXTENDS Integers, Sequences, FiniteSets, TLC

\* ------------------------------------------------------------- bounds
NumSessions == 2    \* mentions (MessageCreate events) the model holds
MaxUpdates == 3     \* updateProgress calls per session
MaxClicks == 2      \* times one session's abort callback is invoked
MaxTicks == 3       \* clock horizon, in coarse steps
MaxBlocks == 2      \* blocks of unlike kinds in one event's content
MaxResets == 1      \* reset requests

\* -------------------------------------------------- program constants
EDIT_DEBOUNCE_MS == 2000
TYPING_INTERVAL_MS == 8000
PROGRESS_CAP == 1500

Sessions == 1..NumSessions
Solo == {1}

\* Date.now() is far past the epoch: the first reading is at least one
\* debounce window after time 0 (lastEditTime starts at 0).
Epoch == EDIT_DEBOUNCE_MS
CoarseStep == EDIT_DEBOUNCE_MS \div 2
FineStep == EDIT_DEBOUNCE_MS \div 20
Horizon == Epoch + MaxTicks * CoarseStep

\* ---------------------------------------------------------------- texts
\* A string is its identity and its length; cut marks a string that was
\* truncated and given the "..." suffix.
Txt(id, len) == [id |-> id, len |-> len, cut |-> FALSE]
NullText == [id |-> "null", len |-> 0, cut |-> FALSE]
Truthy(t) == t.len > 0

\* rawText.length > 1500 ? rawText.substring(0, 1500) + '...' : rawText
Cap(rawText) ==
    IF rawText.len > PROGRESS_CAP
    THEN [id |-> rawText.id, len |-> PROGRESS_CAP + 3, cut |-> TRUE]
    ELSE rawText

RawTexts == {Txt("A", 1), Txt("L", PROGRESS_CAP + 1)}

\* ---------------------------------------------------------------- tokens
\* a token made of the clock reading alone
CancelIdOf_TimeOnly(messageId, t) == [msg |-> 1, at |-> t]
\* `cancel-${context.messageId}-${Date.now()}`
CancelIdOf(messageId, t) == [msg |-> messageId, at |-> t]
NoToken == [msg |-> 0, at |-> 0]

CANCELLED_RESPONSE == "Request was cancelled"
Channels == {s % 2 : s \in Sessions}

\* ---------------------------------------------------------- JS values
\* A string is the sequence of its characters.  A value of the `any`-typed
\* event is its kind, its characters when it is a string, and its number
\* when it is one.
JsUndefined == [k |-> "undefined", chars |-> <<>>, n |-> 0]
JsNull == [k |-> "null", chars |-> <<>>, n |-> 0]
JsObject == [k |-> "object", chars |-> <<>>, n |-> 0]
JsString(chars) == [k |-> "string", chars |-> chars, n |-> 0]
JsNumber(n) == [k |-> "number", chars |-> <<>>, n |-> n]

\* the value in a condition
JsTruthy(v) ==
    CASE v.k = "string" -> v.chars # <<>>
      [] v.k = "number" -> v.n # 0
      [] v.k = "object" -> TRUE
      [] OTHER -> FALSE

Digits == <<"1", "2", "3", "4", "5", "6", "7", "8", "9">>
\* the value in a template literal or in Array.prototype.join
TemplateString(v) ==
    CASE v.k = "string" -> v.chars
      [] v.k = "number" -> IF v.n \in 1..9 THEN <<Digits[v.n]>> ELSE <<"0">>
      [] v.k = "object" ->
           <<"[", "o", "b", "j", "e", "c", "t", " ", "O", "b", "j", "e", "c", "t", "]">>
      [] v.k = "null" -> <<"n", "u", "l", "l">>
      [] OTHER -> <<"u", "n", "d", "e", "f", "i", "n", "e", "d">>

Ellipsis == <<".", ".", ".">>
Min(a, b) == IF a < b THEN a ELSE b
\* s.substring(0, n)
Substring0(s, n) == SubSeq(s, 1, Min(n, Len(s)))
\* s.slice(-n)
SliceLast(s, n) == SubSeq(s, Len(s) - Min(n, Len(s)) + 1, Len(s))
IndexOf(s, c) ==
    IF \E i \in 1..Len(s) : s[i] = c
    THEN CHOOSE i \in 1..Len(s) : s[i] = c /\ \A j \in 1..(i - 1) : s[j] # c
    ELSE 0
WhiteSpace == {" ", "\n"}
\* s.trim() is the empty string
IsBlank(s) == \A i \in 1..Len(s) : s[i] \in WhiteSpace

\* truncate(s, max) as the template literal shows it: a value without a
\* length (s.length > max is false) comes back as it is
Truncate(v, max) ==
    IF v.k = "string" /\ Len(v.chars) > max
    THEN Substring0(v.chars, max) \o Ellipsis
    ELSE TemplateString(v)

\* ----------------------------------------------------------- classifier
\* onStreamJson and summarizeToolInput of both copies of the entry point:
\* the cancel-button variant (src/index.ts:185-272) and the image variant
\* (src/index.ts:569-646).
Variants == {"cancel", "image"}
SUMMARY_MAX == 80
GENERIC_MAX == 60
PAGE_ID_SHOWN == 8
THINKING_TAIL == 150
WRITING_HEAD == 200

\* \w of the regular expression, among the characters used here
WordChars == {"m", "c", "p", "a", "b", "d", "e", "f", "g", "_"}
\* the end of the match of /^mcp__\w+__/ in name, 0 when there is none:
\* \w+ is greedy and takes underscores, so the match ends at the last "__"
\* of the run of word characters that follows "mcp__"
McpPrefixEnd(name) ==
    IF Len(name) >= 5 /\ SubSeq(name, 1, 5) = <<"m", "c", "p", "_", "_">>
    THEN LET run == {r \in 6..Len(name) : \A i \in 6..r : name[i] \in WordChars}
             ends == {j \in run : j >= 8 /\ name[j] = "_" /\ name[j - 1] = "_"}
         IN  IF ends = {} THEN 0
             ELSE CHOOSE j \in ends : \A i \in ends : i <= j
    ELSE 0

\* name.replace(/^mcp__\w+__/, '').replace(/_/g, ' ')
ToolName(name) ==
    LET rest == SubSeq(name, McpPrefixEnd(name) + 1, Len(name))
    IN  [i \in 1..Len(rest) |-> IF rest[i] = "_" THEN " " ELSE rest[i]]

UNKNOWN_TOOL == <<"u", "n", "k", "n", "o", "w", "n">>

\* input[key]; an input is the sequence of its own properties in
\* insertion order
Field(input, key) ==
    IF \E i \in 1..Len(input.fields) : input.fields[i].key = key
    THEN input.fields[CHOOSE i \in 1..Len(input.fields) : input.fields[i].key = key].val
    ELSE JsUndefined

NoSummary == [icon |-> "", key |-> "", text |-> <<>>]
Summary(icon, text) == [icon |-> icon, key |-> "", text |-> text]

\* Object.keys(input).filter(k => typeof input[k] === 'string')
StringKeys(input) ==
    SelectSeq(input.fields, LAMBDA f : f.val.k = "string")

\* a summary that looks at the command before anything else
SummarizeToolInput_CommandFirst(input) ==
    IF JsTruthy(Field(input, "command"))
    THEN Summary("command", Truncate(Field(input, "command"), SUMMARY_MAX))
    ELSE IF JsTruthy(Field(input, "query"))
    THEN Summary("search", Truncate(Field(input, "query"), SUMMARY_MAX))
    ELSE NoSummary

\* summarizeToolInput: the icon of the branch taken and the text after it;
\* '' when nothing matches or when the body throws (substring of a value
\* that is no string)
SummarizeToolInput(input) ==
    IF JsTruthy(Field(input, "query"))
    THEN Summary("search", Truncate(Field(input, "query"), SUMMARY_MAX))
    ELSE IF JsTruthy(Field(input, "content"))
    THEN Summary("search", Truncate(Field(input, "content"), SUMMARY_MAX))
    ELSE IF JsTruthy(Field(input, "message"))
    THEN Summary("message", Truncate(Field(input, "message"), SUMMARY_MAX))
    ELSE IF JsTruthy(Field(input, "page_id"))
    THEN IF Field(input, "page_id").k = "string"
         THEN Summary("page",
                  Substring0(Field(input, "page_id").chars, PAGE_ID_SHOWN) \o Ellipsis)
         ELSE NoSummary
    ELSE IF JsTruthy(Field(input, "channelId"))
    THEN Summary("channel", TemplateString(Field(input, "channelId")))
    ELSE IF JsTruthy(Field(input, "threadId"))
    THEN Summary("thread", TemplateString(Field(input, "threadId")))
    ELSE IF JsTruthy(Field(input, "path"))
    THEN Summary("file", TemplateString(Field(input, "path")))
    ELSE IF JsTruthy(Field(input, "file_path"))
    THEN Summary("file", TemplateString(Field(input, "file_path")))
    ELSE IF JsTruthy(Field(input, "command"))
    THEN Summary("command", Truncate(Field(input, "command"), SUMMARY_MAX))
    ELSE IF StringKeys(input) # <<>>
    THEN [icon |-> "key", key |-> StringKeys(input)[1].key,
          text |-> Truncate(StringKeys(input)[1].val, GENERIC_MAX)]
    ELSE NoSummary

\* lastTool.input || {}
NoInput == [k |-> "undefined", fields |-> <<>>]
InputOrEmpty(input) ==
    IF input.k = "object" THEN input ELSE [k |-> "object", fields |-> <<>>]

\* The argument of one updateProgress call: which template it is, and the
\* strings put into the template.
Update(form, tool, summary, body) ==
    [form |-> form, tool |-> tool, summary |-> summary, body |-> body]

\* a replace that matches nothing
DropFirstLine_Keep(s) == s
\* s.replace(/^[^\n]*\n/, '')
DropFirstLine(s) ==
    IF IndexOf(s, "\n") = 0 THEN s ELSE SubSeq(s, IndexOf(s, "\n") + 1, Len(s))

\* the thought as the thinking update shows it: whole in the cancel-button
\* variant (index.ts:196), the tail after its first line break in the image
\* variant (index.ts:581-584)
ThinkingPreview(variant, thought) ==
    IF variant = "image" /\ thought.k = "string" /\ Len(thought.chars) > THINKING_TAIL
    THEN Ellipsis \o DropFirstLine(SliceLast(thought.chars, THINKING_TAIL))
    ELSE TemplateString(thought)

\* the text as the writing update shows it: whole (index.ts:225), or its
\* head (index.ts:611-614)
WritingPreview(variant, fullText) ==
    IF variant = "image" /\ Len(fullText) > WRITING_HEAD
    THEN Substring0(fullText, WRITING_HEAD) \o Ellipsis
    ELSE fullText

RECURSIVE Join(_)
\* textBlocks.map(c => c.text).join('')
Join(blocks) ==
    IF blocks = <<>> THEN <<>>
    ELSE TemplateString(blocks[1].text) \o Join(Tail(blocks))

NoCalls == [threw |-> FALSE, calls |-> <<>>]
Throws == [threw |-> TRUE, calls |-> <<>>]
Calls(update) == [threw |-> FALSE, calls |-> <<update>>]

\* if (message.type === 'tool_result' || message.type === 'result')
ResultsRule(message) ==
    IF message.type \in {"tool_result", "result"}
    THEN Calls(Update("results", <<>>, NoSummary, <<>>))
    ELSE NoCalls


\* the tool_use branch: (lastTool.name || 'unknown').replace throws for a
\* truthy name that is no string
ToolRule(toolUses) ==
    LET lastTool == toolUses[Len(toolUses)]
    IN  IF JsTruthy(lastTool.name) /\ lastTool.name.k # "string"
        THEN Throws
        ELSE LET toolName == ToolName(IF JsTruthy(lastTool.name)
                                      THEN lastTool.name.chars ELSE UNKNOWN_TOOL)
                 inputSummary == SummarizeToolInput(InputOrEmpty(lastTool.input))
             IN  Calls(Update(IF inputSummary # NoSummary THEN "tool" ELSE "toolRunning",
                              toolName, inputSummary, <<>>))

\* a filter that finds no thinking block
ThinkingBlocks_None(content) == <<>>
\* content.filter(c => c.type === 'thinking' && c.thinking)
ThinkingBlocks(content) ==
    SelectSeq(content, LAMBDA c : c.type = "thinking" /\ JsTruthy(c.thinking))
\* content.filter(c => c.type === 'tool_use')
ToolUses(content) == SelectSeq(content, LAMBDA c : c.type = "tool_use")
\* content.filter(c => c.type === 'text' && c.text)
TextBlocks(content) ==
    SelectSeq(content, LAMBDA c : c.type = "text" /\ JsTruthy(c.text))

\* The body of the try block of onStreamJson: the updateProgress calls it
\* makes, or that it throws (a property read of null, a method that the
\* value does not have).
Classify(variant, message) ==
    IF message.nullish THEN Throws
    ELSE IF message.type = "assistant" /\ message.envelope
            /\ message.content.k # "undefined"
    THEN IF message.content.k # "array" THEN Throws
         ELSE LET content == message.content.items
              IN  IF \E i \in 1..Len(content) : content[i].nullish THEN Throws
                  ELSE LET thinkingBlocks == ThinkingBlocks(content)
                           toolUses == ToolUses(content)
                           textBlocks == TextBlocks(content)
                       IN  IF thinkingBlocks # <<>>
                           THEN Calls(Update("thinking", <<>>, NoSummary,
                                    ThinkingPreview(variant,
                                        thinkingBlocks[Len(thinkingBlocks)].thinking)))
                           ELSE IF toolUses # <<>>
                           THEN ToolRule(toolUses)
                           ELSE IF textBlocks # <<>> /\ ~IsBlank(Join(textBlocks))
                           THEN Calls(Update("writing", <<>>, NoSummary,
                                    WritingPreview(variant, Join(textBlocks))))
                           ELSE ResultsRule(message)
    ELSE ResultsRule(message)

\* an onStreamJson without its try/catch
OnStreamJson_NoCatch(variant, message) == Classify(variant, message)
\* try { ... } catch { /* ignore */ }
OnStreamJson(variant, message) ==
    IF Classify(variant, message).threw THEN NoCalls ELSE Classify(variant, message)

\* --------------------------------------------------------------- events
\* The events onStreamJson is called with.
Letters == <<"a", "b", "c", "d", "e", "f", "g">>
\* a string of len characters with line breaks at the positions breaks
Pattern(len, breaks) ==
    [i \in 1..len |-> IF i \in breaks THEN "\n" ELSE Letters[(i % 7) + 1]]

Block(type, thinking, text, name, input) ==
    [nullish |-> FALSE, type |-> type, thinking |-> thinking, text |-> text,
     name |-> name, input |-> input]
NullBlock ==
    [nullish |-> TRUE, type |-> "", thinking |-> JsUndefined, text |-> JsUndefined,
     name |-> JsUndefined, input |-> NoInput]
ThinkingBlock(thought) == Block("thinking", thought, JsUndefined, JsUndefined, NoInput)
ToolUseBlock(name, input) == Block("tool_use", JsUndefined, JsUndefined, name, input)
TextBlock(text) == Block("text", JsUndefined, text, JsUndefined, NoInput)
Input(fields) == [k |-> "object", fields |-> fields]
Prop(key, val) == [key |-> key, val |-> val]

Message(type, envelope, content) ==
    [nullish |-> FALSE, type |-> type, envelope |-> envelope, content |-> content]
Array(items) == [k |-> "array", items |-> items]
NoContent == [k |-> "undefined", items |-> <<>>]
NullMessage == [nullish |-> TRUE, type |-> "", envelope |-> FALSE, content |-> NoContent]
\* before the first event
NoMessage == [nullish |-> FALSE, type |-> "none", envelope |-> FALSE, content |-> NoContent]

GetA == <<"g", "e", "t", "_", "a">>
McpGetB == <<"m", "c", "p", "_", "_", "a", "_", "_", "g", "e", "t", "_", "b">>
ToolNames ==
    {GetA, McpGetB,
     <<"m", "c", "p", "_", "_", "a", "_", "_", "b", "_", "_", "c">>,
     <<"m", "c", "p", "_", "_", "a">>,
     <<"m", "c", "p", "_", "_", "_", "_", "a">>,
     <<"m", "c", "p", "_", "_", "a", "-", "b", "_", "_", "c">>}

\* the blocks that are mixed in one content array, MaxBlocks at most
MixedBlocks ==
    {ThinkingBlock(JsString(Pattern(3, {}))),
     ThinkingBlock(JsString(<<>>)),
     ToolUseBlock(JsString(GetA), Input(<<Prop("query", JsString(Pattern(2, {})))>>)),
     ToolUseBlock(JsString(McpGetB), NoInput),
     ToolUseBlock(JsNumber(5), NoInput),
     TextBlock(JsString(Pattern(2, {}))),
     TextBlock(JsString(<<" ">>)),
     NullBlock}

RECURSIVE SeqsUpTo(_, _)
SeqsUpTo(S, n) ==
    IF n = 0 THEN {<<>>}
    ELSE SeqsUpTo(S, n - 1) \cup
         {Append(q, x) : q \in {p \in SeqsUpTo(S, n - 1) : Len(p) = n - 1}, x \in S}

MessageTypes == {"assistant", "tool_result", "result", "user"}

Thoughts ==
    {JsNumber(5)} \cup
    {JsString(Pattern(len, breaks)) :
        len \in {THINKING_TAIL - 1, THINKING_TAIL, THINKING_TAIL + 1, THINKING_TAIL + 5},
        breaks \in {{}, {3}, {THINKING_TAIL + 5}, {THINKING_TAIL + 1}, {6}, {60},
                    {60, 100}}}

Texts ==
    {JsNumber(5)} \cup
    {JsString(Pattern(len, {})) : len \in {WRITING_HEAD, WRITING_HEAD + 1}}

InputKeys ==
    {"query", "content", "message", "page_id", "channelId", "threadId", "path",
     "file_path", "command", "note"}
InputValues ==
    {JsString(Pattern(2, {})), JsString(<<>>), JsNumber(5),
     JsString(Pattern(GENERIC_MAX + 1, {})),
     JsString(Pattern(SUMMARY_MAX, {})), JsString(Pattern(SUMMARY_MAX + 1, {}))}
ToolInputs ==
    {NoInput, [k |-> "number", fields |-> <<>>], Input(<<>>)}
    \cup {Input(<<Prop(key, val)>>) : key \in InputKeys, val \in InputValues}
    \cup {Input(<<Prop(ks[1], JsString(Pattern(2, {}))),
                   Prop(ks[2], JsString(Pattern(3, {})))>>) :
            ks \in {pair \in InputKeys \X InputKeys : pair[1] # pair[2]}}
    \cup {Input(<<Prop(k1, val), Prop("command", JsString(Pattern(3, {})))>>) :
            k1 \in InputKeys \ {"command"}, val \in {JsString(<<>>), JsNumber(5)}}

Messages ==
    {NullMessage}
    \cup {Message(type, envelope, content) :
            type \in MessageTypes, envelope \in BOOLEAN,
            content \in {NoContent, [k |-> "string", items |-> <<>>],
                         [k |-> "object", items |-> <<>>]}}
    \cup {Message(type, TRUE, Array(items)) :
            type \in MessageTypes, items \in SeqsUpTo(MixedBlocks, MaxBlocks)}
    \cup {Message("assistant", TRUE, Array(<<ThinkingBlock(thought)>>)) : thought \in Thoughts}
    \cup {Message("assistant", TRUE, Array(<<TextBlock(text)>>)) : text \in Texts}
    \cup {Message("assistant", TRUE, Array(<<ToolUseBlock(JsString(name), NoInput)>>)) :
            name \in ToolNames}
    \cup {Message("assistant", TRUE, Array(<<ToolUseBlock(JsString(GetA), input)>>)) :
            input \in ToolInputs}

VARIABLES
    now,              \* Date.now()
    pc,               \* per handler invocation: where it is suspended
    progressMsg,      \* progressMsg !== null
    placeholder,      \* the remote progress message: "none", "live", "deleted"
    sendOk,           \* outcome of sendProgressWithCancel, until the handler resumes
    cancelId,
    lastEditTime,
    pendingEditText,
    pendingEditTimer, \* the variable: last handle stored, 0 = null
    timers,           \* the runtime's armed setTimeout timers of the session
    timerSeq,         \* handles handed out so far
    typingInterval,   \* the setInterval is armed
    typingDue,        \* its next deadline
    typingLog,        \* the interval's callbacks run: [at, outcome] (history)
    aborted,          \* controller.signal.aborted
    taskResult,       \* what sendToClaudeCode gave
    cancelCallbacks,  \* the registry Map
    channelSessions,  \* channelId -> sessionId, 0 = absent
    inFlight,         \* edits issued and not settled
    \* --- history (ghost) variables, read by no action's guard
    updates,          \* updateProgress calls: [at, text]
    edits,            \* edits issued: [at, text, by, upTo, closed]
    editSucceeded,    \* some edit of the session settled without throwing
    reportFailed,     \* the dispatch layer's error message could not be sent
    closed,           \* the debounce teardown has run
    clearedDue,       \* the teardown cleared a timer that was due
    live,             \* tokens registered and not unregistered since, by call site
    cbCalls,          \* times the session's abort callback ran
    liveClicks,       \* times the session's token was triggered while live
    lastOp,           \* the last operation applied to the registry directly
    regLog,           \* per token: the last two callbacks registered since
                      \* it was last unregistered
    staleClicks,      \* kinds of not-live tokens triggered: "never", "released"
    staleCalls,       \* ... and a callback was invoked for it
    deletes, replies, errorReports,
    deleteAt,         \* when deleteProgress was called, 0 = not called
    terminal,         \* "", "COMPLETED", "CANCELLED", "FAILED"
    exit,             \* "", "returned", "threw"
    thrownBy,         \* what the handler threw for: "", "task", "reply", "delete"
    cleanups,         \* times the finally block ran
    escaped,          \* exceptions no handler caught
    \* --- the classifier
    variant,          \* which copy of the entry point runs
    streamMessage,    \* the event onStreamJson is called with
    classified,       \* the call was made
    streamResult,     \* what the call did: [threw, calls]
    \* --- the requests
    channelId,        \* context.channelId of each mention
    resetPc,          \* the handler of a reset request: "idle", "replying",
                      \* "reporting"
    resets,           \* reset requests handled so far
    resetAcks,        \* acknowledgements the reset handler replied with
    sawReset          \* the session was in flight when a reset ran (history)

debounceVars == <<lastEditTime, pendingEditText, pendingEditTimer, timers, timerSeq>>
editVars == <<edits, inFlight>>
registryVars == <<cancelCallbacks, live>>
clickVars == <<cbCalls, liveClicks, staleClicks, staleCalls, aborted, lastOp, regLog>>
outVars == <<deletes, deleteAt, replies, errorReports, terminal, exit, thrownBy,
            cleanups>>
setupVars == <<progressMsg, placeholder, sendOk, cancelId>>
typingVars == <<typingInterval, typingDue, typingLog>>
settleVars == <<editSucceeded, escaped, reportFailed>>
classifyVars == <<variant, streamMessage, classified, streamResult>>
resetVars == <<resetPc, resets, resetAcks, sawReset>>

\* context.channelId
ChannelOf(s) == channelId[s]

vars == <<now, pc, setupVars, debounceVars, typingVars, editVars, registryVars,
          clickVars, outVars, settleVars, taskResult, channelSessions,
          updates, closed, clearedDue, classifyVars, channelId, resetVars>>

\* The tokens and callbacks the registry's operations are applied to
\* directly: two tokens, and the abort callback of each session.
OpTokens == {CancelIdOf(m, Epoch) : m \in {1, 2}}
Callbacks == Sessions
NoOp == [kind |-> "none", token |-> NoToken, callback |-> 0]

NoResult == [kind |-> "none", response |-> "", sessionId |-> 0]

\* No mention has arrived.
SessionsIdle ==
    /\ now = Epoch
    /\ pc = [s \in Sessions |-> "idle"]
    /\ progressMsg = [s \in Sessions |-> FALSE]
    /\ placeholder = [s \in Sessions |-> "none"]
    /\ sendOk = [s \in Sessions |-> FALSE]
    /\ cancelId = [s \in Sessions |-> NoToken]
    /\ lastEditTime = [s \in Sessions |-> 0]
    /\ pendingEditText = [s \in Sessions |-> NullText]
    /\ pendingEditTimer = [s \in Sessions |-> 0]
    /\ timers = [s \in Sessions |-> {}]
    /\ timerSeq = [s \in Sessions |-> 0]
    /\ typingInterval = [s \in Sessions |-> FALSE]
    /\ typingDue = [s \in Sessions |-> 0]
    /\ typingLog = [s \in Sessions |-> <<>>]
    /\ aborted = [s \in Sessions |-> FALSE]
    /\ taskResult = [s \in Sessions |-> NoResult]
    /\ cancelCallbacks = [t \in {} |-> 0]
    /\ channelSessions = [c \in Channels |-> 0]
    /\ inFlight = [s \in Sessions |-> 0]
    /\ updates = [s \in Sessions |-> <<>>]
    /\ edits = [s \in Sessions |-> <<>>]
    /\ editSucceeded = [s \in Sessions |-> FALSE]
    /\ reportFailed = [s \in Sessions |-> FALSE]
    /\ closed = [s \in Sessions |-> FALSE]
    /\ clearedDue = [s \in Sessions |-> FALSE]
    /\ live = {}
    /\ cbCalls = [s \in Sessions |-> 0]
    /\ liveClicks = [s \in Sessions |-> 0]
    /\ lastOp = NoOp
    /\ regLog = [t \in OpTokens |-> <<>>]
    /\ staleClicks = {}
    /\ staleCalls = FALSE
    /\ deletes = [s \in Sessions |-> 0]
    /\ deleteAt = [s \in Sessions |-> 0]
    /\ replies = [s \in Sessions |-> 0]
    /\ errorReports = [s \in Sessions |-> 0]
    /\ terminal = [s \in Sessions |-> ""]
    /\ exit = [s \in Sessions |-> ""]
    /\ thrownBy = [s \in Sessions |-> ""]
    /\ cleanups = [s \in Sessions |-> 0]
    /\ escaped = 0

\* No event has been classified.
ClassifierIdle ==
    /\ streamMessage = NoMessage
    /\ classified = FALSE
    /\ streamResult = NoCalls

\* No reset was requested.
NoReset ==
    /\ resetPc = "idle"
    /\ resets = 0
    /\ resetAcks = 0
    /\ sawReset = [s \in Sessions |-> FALSE]

\* Mentions of successive messages alternate between the channels.
OwnChannels == channelId = [s \in Sessions |-> s % 2]

Init ==
    /\ SessionsIdle
    /\ OwnChannels
    /\ NoReset
    /\ variant = "cancel"
    /\ ClassifierIdle

\* ------------------------------------------------------- remote helpers
\* What a helper's promise does when the remote call ends `o` ("ok" or
\* "throws"): helpers with a try/catch resolve either way.
SendTyping(o) == "ok"
SendProgressWithCancel(o) == o
EditProgressWithCancel(o) == "ok"
\* a delete whose rejection is not caught
DeleteProgress_Unguarded(o) == o
DeleteProgress(o) == "ok"
Reply(o) == o
InteractionAck(o) == "ok"
\* an error message sent outside any try/catch
ErrorReport_Unguarded(o) == o
ErrorReport(o) == "ok"
\* .catch(() => { })
CatchIgnore(o) == "ok"
\* an edit called on the message directly, its rejection unhandled
IssuedEditOutcome_Unhandled(o) == o
\* helpers.editProgressWithCancel(...).catch(() => { })
IssuedEditOutcome(o) == CatchIgnore(EditProgressWithCancel(o))
Outcomes == {"ok", "throws"}

\* ------------------------------------------------------------- registry
\* a set that keeps the entry it finds
RegisterCancel_KeepExisting(reg, id, callback) ==
    [t \in (DOMAIN reg) \cup {id} |-> IF t \in DOMAIN reg THEN reg[t] ELSE callback]

\* cancelCallbacks.set(cancelId, callback)
RegisterCancel(reg, id, callback) ==
    [t \in (DOMAIN reg) \cup {id} |-> IF t = id THEN callback ELSE reg[t]]

\* a registry whose delete is lost
UnregisterCancel_Noop(reg, id) == reg
\* a delete that empties the registry
UnregisterCancel_Clear(reg, id) == [t \in {} |-> reg[t]]

UnregisterCancel(reg, id) ==
    [t \in (DOMAIN reg) \ {id} |-> reg[t]]

\* --------------------------------------------------------------- timers
SetTimeout(armed, handle, delay) ==
    armed \cup {[id |-> handle, deadline |-> now + delay]}

\* a clearTimeout that has no effect
ClearTimeout_Noop(armed, handle) == armed

\* clearTimeout(handle)
ClearTimeout(armed, handle) ==
    {t \in armed : t.id # handle}

\* a teardown that leaves the timer armed
ClearPendingEditTimer_Noop(armed, handle) == armed

\* if (pendingEditTimer) clearTimeout(pendingEditTimer)
ClearPendingEditTimer(armed, handle) ==
    IF handle # 0 THEN ClearTimeout(armed, handle) ELSE armed

\* an interval that is never cleared
ClearInterval_Skipped(running) == running

\* clearInterval(typingInterval)
ClearInterval(running) == FALSE

\* ------------------------------------------------------- updateProgress
\* the comparison made strict, and the comparison dropped
ShouldEditNow_Strict(timeSinceLastEdit) == timeSinceLastEdit > EDIT_DEBOUNCE_MS
ShouldEditNow_Always(timeSinceLastEdit) == timeSinceLastEdit >= 0
\* if (timeSinceLastEdit >= EDIT_DEBOUNCE_MS)
ShouldEditNow(timeSinceLastEdit) == timeSinceLastEdit >= EDIT_DEBOUNCE_MS

\* the elapsed time taken for the remaining time
TimerDelay_Elapsed(timeSinceLastEdit) == timeSinceLastEdit
\* setTimeout(..., EDIT_DEBOUNCE_MS - timeSinceLastEdit)
TimerDelay(timeSinceLastEdit) == EDIT_DEBOUNCE_MS - timeSinceLastEdit

\* a pending text that is kept instead of overwritten
NextPendingText_KeepFirst(old, text) == IF Truthy(old) THEN old ELSE text
\* pendingEditText = text
NextPendingText(old, text) == text

\* an immediate edit that leaves the pending text in place
PendingAfterImmediate_Kept(old) == old
\* pendingEditText = null
PendingAfterImmediate(old) == NullText

\* a callback that does not look at pendingEditText
TimerCommits_NoPendingCheck(pending, msg) == msg
\* if (pendingEditText && progressMsg)
TimerCommits(pending, msg) == Truthy(pending) /\ msg

\* The edit is issued (msg.edit is called) inside the call; it settles later.
IssueEdit(s, text, by) ==
    /\ edits' = [edits EXCEPT ![s] = Append(@,
            [at |-> now, text |-> text, by |-> by,
             upTo |-> Len(updates'[s]), closed |-> closed[s]])]
    /\ inFlight' = [inFlight EXCEPT ![s] = @ + 1]

\* an updateProgress without `if (!progressMsg) return;`
UpdateProgress_Unguarded(s, rawText) ==
    LET text == Cap(rawText)
        timeSinceLastEdit == now - lastEditTime[s]
    IN  IF ShouldEditNow(timeSinceLastEdit)
        THEN /\ lastEditTime' = [lastEditTime EXCEPT ![s] = now]
             /\ pendingEditText' = [pendingEditText EXCEPT
                    ![s] = PendingAfterImmediate(@)]
             /\ IssueEdit(s, text, "call")
             /\ UNCHANGED <<pendingEditTimer, timers, timerSeq>>
        ELSE LET handle == timerSeq[s] + 1
             IN  /\ pendingEditText' = [pendingEditText EXCEPT
                        ![s] = NextPendingText(@, text)]
                 /\ timers' = [timers EXCEPT ![s] =
                        SetTimeout(ClearPendingEditTimer(@, pendingEditTimer[s]),
                                   handle, TimerDelay(timeSinceLastEdit))]
                 /\ pendingEditTimer' = [pendingEditTimer EXCEPT ![s] = handle]
                 /\ timerSeq' = [timerSeq EXCEPT ![s] = handle]
                 /\ UNCHANGED <<lastEditTime, editVars>>

UpdateProgress(s, rawText) ==
    IF ~progressMsg[s]
    THEN UNCHANGED <<debounceVars, editVars>>
    ELSE LET text == Cap(rawText)
             timeSinceLastEdit == now - lastEditTime[s]
         IN  IF ShouldEditNow(timeSinceLastEdit)
             THEN /\ lastEditTime' = [lastEditTime EXCEPT ![s] = now]
                  /\ pendingEditText' = [pendingEditText EXCEPT
                         ![s] = PendingAfterImmediate(@)]
                  /\ IssueEdit(s, text, "call")
                  /\ UNCHANGED <<pendingEditTimer, timers, timerSeq>>
             ELSE LET handle == timerSeq[s] + 1
                  IN  /\ pendingEditText' = [pendingEditText EXCEPT
                             ![s] = NextPendingText(@, text)]
                      /\ timers' = [timers EXCEPT ![s] =
                             SetTimeout(ClearPendingEditTimer(@, pendingEditTimer[s]),
                                        handle, TimerDelay(timeSinceLastEdit))]
                      /\ pendingEditTimer' = [pendingEditTimer EXCEPT ![s] = handle]
                      /\ timerSeq' = [timerSeq EXCEPT ![s] = handle]
                      /\ UNCHANGED <<lastEditTime, editVars>>

\* The setTimeout callback of updateProgress; a timer never fires early.
TimerFire(s) ==
    /\ \E t \in timers[s] :
        /\ now >= t.deadline
        /\ timers' = [timers EXCEPT ![s] = @ \ {t}]
    /\ UNCHANGED updates
    /\ IF TimerCommits(pendingEditText[s], progressMsg[s])
       THEN /\ lastEditTime' = [lastEditTime EXCEPT ![s] = now]
            /\ IssueEdit(s, pendingEditText[s], "timer")
            /\ pendingEditText' = [pendingEditText EXCEPT ![s] = NullText]
       ELSE UNCHANGED <<lastEditTime, pendingEditText, editVars>>
    /\ UNCHANGED <<now, pc, setupVars, pendingEditTimer, timerSeq, typingVars,
                   registryVars, clickVars, outVars, settleVars, taskResult,
                   channelSessions, closed, clearedDue>>
    /\ UNCHANGED <<classifyVars, channelId, resetVars>>

\* msg.edit settles; the message must still exist for it to succeed.
EditSettle(s, o) ==
    /\ inFlight[s] > 0
    /\ o = "ok" => placeholder[s] = "live"
    /\ inFlight' = [inFlight EXCEPT ![s] = @ - 1]
    /\ editSucceeded' = [editSucceeded EXCEPT ![s] = @ \/ o = "ok"]
    /\ UNCHANGED reportFailed
    /\ escaped' = IF IssuedEditOutcome(o) = "throws"
                  THEN escaped + 1 ELSE escaped
    /\ UNCHANGED <<now, pc, setupVars, debounceVars, typingVars, edits,
                   registryVars, clickVars, outVars, taskResult,
                   channelSessions, updates, closed, clearedDue>>
    /\ UNCHANGED <<classifyVars, channelId, resetVars>>

\* ---------------------------------------------------------------- task
\* sendToClaudeCode, told to stop through the AbortController it was given:
\* once aborted it delivers no further event and returns the cancellation
\* sentinel; otherwise it emits events, then returns a result or raises.
TaskMayEmit(isAborted) == ~isAborted
TaskMayRaise(isAborted) == ~isAborted
TaskResponses(isAborted) ==
    IF isAborted THEN {CANCELLED_RESPONSE} ELSE {"answer", ""}

\* -------------------------------------------------------- mention handler
\* the text shown for a result without a response
NO_RESPONSE_TEXT == "no response"
\* a reply of the response as it came
FinalResponse_NoFallback(response) == response
\* result.response || NO_RESPONSE_TEXT
FinalResponse(response) == IF response = "" THEN NO_RESPONSE_TEXT ELSE response
\* reply: `if (!text) return;`, else the text is sent
ReplyMessages(text) == IF text = "" THEN 0 ELSE 1
\* a sentinel that is never recognised, and a test that is inverted
IsCancelled_Never(response) == FALSE
IsCancelled_Inverted(response) == response # CANCELLED_RESPONSE
\* result.response === "Request was cancelled"
IsCancelled(response) == response = CANCELLED_RESPONSE

\* a map that keeps the session a channel already has
StoreSession_KeepExisting(map, channel, sessionId) ==
    IF sessionId # 0 /\ map[channel] = 0 THEN [map EXCEPT ![channel] = sessionId] ELSE map
\* if (result.sessionId) channelSessions.set(context.channelId, result.sessionId)
StoreSession(map, channel, sessionId) ==
    IF sessionId # 0 THEN [map EXCEPT ![channel] = sessionId] ELSE map

\* The timer the variable names is armed and already due.
PendingTimerDue(s) ==
    \E t \in timers[s] : t.id = pendingEditTimer[s] /\ t.deadline <= now

\* MessageCreate for a mention with a prompt: onMention is called and
\* suspends at `await helpers.sendTyping()`.
MessageCreate(s) ==
    /\ pc[s] = "idle"
    /\ pc' = [pc EXCEPT ![s] = "typing"]
    /\ UNCHANGED <<now, setupVars, debounceVars, typingVars, editVars,
                   registryVars, clickVars, outVars, settleVars, taskResult,
                   channelSessions, updates, closed, clearedDue>>
    /\ UNCHANGED <<classifyVars, channelId, resetVars>>

\* sendTyping settled (it never rejects): setInterval, cancelId, and the
\* call of sendProgressWithCancel.
StartSession(s, o) ==
    /\ pc[s] = "typing"
    /\ SendTyping(o) = "ok"
    /\ typingInterval' = [typingInterval EXCEPT ![s] = TRUE]
    /\ typingDue' = [typingDue EXCEPT ![s] = now + TYPING_INTERVAL_MS]
    /\ cancelId' = [cancelId EXCEPT ![s] = CancelIdOf(s, now)]
    /\ pc' = [pc EXCEPT ![s] = "sending"]
    /\ UNCHANGED <<now, progressMsg, placeholder, sendOk, debounceVars, editVars,
                   registryVars, clickVars, outVars, settleVars, taskResult,
                   channelSessions, updates, closed, clearedDue, typingLog>>
    /\ UNCHANGED <<classifyVars, channelId, resetVars>>

\* channel.send settles at the remote side: the placeholder with its cancel
\* button exists from here on, before the handler runs again.
RemoteSend(s, o) ==
    /\ pc[s] = "sending"
    /\ placeholder' = [placeholder EXCEPT ![s] = IF o = "ok" THEN "live" ELSE @]
    /\ sendOk' = [sendOk EXCEPT ![s] = SendProgressWithCancel(o) = "ok"]
    /\ pc' = [pc EXCEPT ![s] = "sent"]
    /\ UNCHANGED <<now, progressMsg, cancelId, debounceVars, typingVars, editVars,
                   registryVars, clickVars, outVars, settleVars, taskResult,
                   channelSessions, updates, closed, clearedDue>>
    /\ UNCHANGED <<classifyVars, channelId, resetVars>>

\* The handler resumes: progressMsg (null when the send threw), the debounce
\* state, registerCancel, and the call of sendToClaudeCode.
HandlerSetup(s) ==
    /\ pc[s] = "sent"
    /\ progressMsg' = [progressMsg EXCEPT ![s] = sendOk[s]]
    /\ cancelCallbacks' = RegisterCancel(cancelCallbacks, cancelId[s], s)
    /\ live' = live \cup {cancelId[s]}
    /\ pc' = [pc EXCEPT ![s] = "running"]
    /\ UNCHANGED <<now, placeholder, sendOk, cancelId, debounceVars, typingVars,
                   editVars, clickVars, outVars, settleVars, taskResult,
                   channelSessions, updates, closed, clearedDue>>
    /\ UNCHANGED <<classifyVars, channelId, resetVars>>

\* onStreamJson classifies an event of the task to rawText and calls
\* updateProgress(rawText).
EmitUpdate(s, rawText) ==
    /\ pc[s] = "running"
    /\ TaskMayEmit(aborted[s])
    /\ updates' = [updates EXCEPT ![s] = Append(@, [at |-> now, text |-> rawText])]
    /\ UpdateProgress(s, rawText)
    /\ UNCHANGED <<now, pc, setupVars, typingVars, registryVars, clickVars,
                   outVars, settleVars, taskResult, channelSessions, closed,
                   clearedDue>>
    /\ UNCHANGED <<classifyVars, channelId, resetVars>>

\* An event of the task whose progress text differs from the one before it.
TaskEmit(s, rawText) ==
    /\ Len(updates[s]) < MaxUpdates
    /\ updates[s] # <<>> => rawText # updates[s][Len(updates[s])].text
    /\ EmitUpdate(s, rawText)

\* A handler whose cleanup follows the try block instead of being its
\* finally block: a throw leaves without it.
Finally_SkippedOnThrow(s, armed, reg, threw) ==
    /\ typingInterval' = [typingInterval EXCEPT ![s] = IF threw THEN @ ELSE ClearInterval(@)]
    /\ timers' = [timers EXCEPT ![s] =
           IF threw THEN armed ELSE ClearPendingEditTimer(armed, pendingEditTimer[s])]
    /\ cancelCallbacks' = IF threw THEN reg ELSE UnregisterCancel(reg, cancelId[s])
    /\ live' = IF threw THEN live ELSE live \ {cancelId[s]}
    /\ cleanups' = [cleanups EXCEPT ![s] = IF threw THEN @ ELSE @ + 1]
    /\ exit' = [exit EXCEPT ![s] = IF threw THEN "threw" ELSE "returned"]
    /\ errorReports' = [errorReports EXCEPT ![s] = IF threw THEN @ + 1 ELSE @]
    /\ pc' = [pc EXCEPT ![s] = IF threw THEN "reporting" ELSE "done"]
    /\ UNCHANGED <<typingDue, typingLog>>

\* The finally block, the handler's exit, and the dispatch layer's catch
\* (which calls message.reply with the error) when the handler threw.
\* armed and reg are the timers and the registry as the block finds them.
Finally(s, armed, reg, threw) ==
    /\ typingInterval' = [typingInterval EXCEPT ![s] = ClearInterval(@)]
    /\ timers' = [timers EXCEPT ![s] = ClearPendingEditTimer(armed, pendingEditTimer[s])]
    /\ cancelCallbacks' = UnregisterCancel(reg, cancelId[s])
    /\ live' = live \ {cancelId[s]}
    /\ cleanups' = [cleanups EXCEPT ![s] = @ + 1]
    /\ exit' = [exit EXCEPT ![s] = IF threw THEN "threw" ELSE "returned"]
    /\ errorReports' = [errorReports EXCEPT ![s] = IF threw THEN @ + 1 ELSE @]
    /\ pc' = [pc EXCEPT ![s] = IF threw THEN "reporting" ELSE "done"]
    /\ UNCHANGED <<typingDue, typingLog>>

\* sendToClaudeCode returned: store the session id, cancel the pending
\* debounced edit, unregister, then delete the placeholder or reply.
TaskReturn(s, response, sessionId) ==
    /\ pc[s] = "running"
    /\ response \in TaskResponses(aborted[s])
    /\ LET armed == ClearPendingEditTimer(timers[s], pendingEditTimer[s])
           reg == UnregisterCancel(cancelCallbacks, cancelId[s])
       IN  /\ taskResult' = [taskResult EXCEPT ![s] =
                  [kind |-> "result", response |-> response, sessionId |-> sessionId]]
           /\ channelSessions' = StoreSession(channelSessions, ChannelOf(s), sessionId)
           /\ closed' = [closed EXCEPT ![s] = TRUE]
           /\ clearedDue' = [clearedDue EXCEPT ![s] = PendingTimerDue(s)]
           /\ terminal' = [terminal EXCEPT ![s] =
                  IF IsCancelled(response) THEN "CANCELLED" ELSE "COMPLETED"]
           /\ IF progressMsg[s]
              THEN /\ deletes' = [deletes EXCEPT ![s] = @ + 1]
                   /\ deleteAt' = [deleteAt EXCEPT ![s] = now]
                   /\ pc' = [pc EXCEPT ![s] = "deleting"]
                   /\ timers' = [timers EXCEPT ![s] = armed]
                   /\ cancelCallbacks' = reg
                   /\ live' = live \ {cancelId[s]}
                   /\ UNCHANGED <<typingVars, replies, errorReports, exit, cleanups>>
              ELSE IF IsCancelled(response)
              THEN /\ Finally(s, armed, reg, FALSE)
                   /\ UNCHANGED <<deletes, deleteAt, replies>>
              ELSE /\ replies' = [replies EXCEPT
                          ![s] = @ + ReplyMessages(FinalResponse(response))]
                   /\ pc' = [pc EXCEPT ![s] = "replying"]
                   /\ timers' = [timers EXCEPT ![s] = armed]
                   /\ cancelCallbacks' = reg
                   /\ live' = live \ {cancelId[s]}
                   /\ UNCHANGED <<typingVars, deletes, deleteAt, errorReports, exit,
                                  cleanups>>
    /\ UNCHANGED <<now, setupVars, lastEditTime, pendingEditText, pendingEditTimer,
                   timerSeq, editVars, clickVars, thrownBy, settleVars, updates>>
    /\ UNCHANGED <<classifyVars, channelId, resetVars>>

\* a raise after which the placeholder is deleted as it is after a result
TaskRaise_DeletesPlaceholder(s) ==
    /\ pc[s] = "running"
    /\ TaskMayRaise(aborted[s])
    /\ taskResult' = [taskResult EXCEPT ![s] =
           [kind |-> "raised", response |-> "", sessionId |-> 0]]
    /\ terminal' = [terminal EXCEPT ![s] = "FAILED"]
    /\ thrownBy' = [thrownBy EXCEPT ![s] = "task"]
    /\ closed' = [closed EXCEPT ![s] = TRUE]
    /\ clearedDue' = [clearedDue EXCEPT ![s] = PendingTimerDue(s)]
    /\ Finally(s, timers[s], cancelCallbacks, TRUE)
    /\ deletes' = [deletes EXCEPT ![s] = @ + 1]
    /\ deleteAt' = [deleteAt EXCEPT ![s] = now]
    /\ UNCHANGED <<now, setupVars, lastEditTime, pendingEditText, pendingEditTimer,
                   timerSeq, editVars, clickVars, replies, settleVars,
                   channelSessions, updates>>
    /\ UNCHANGED <<classifyVars, channelId, resetVars>>

\* sendToClaudeCode raised: only the finally block runs, then the dispatch
\* layer reports the error.
TaskRaise(s) ==
    /\ pc[s] = "running"
    /\ TaskMayRaise(aborted[s])
    /\ taskResult' = [taskResult EXCEPT ![s] =
           [kind |-> "raised", response |-> "", sessionId |-> 0]]
    /\ terminal' = [terminal EXCEPT ![s] = "FAILED"]
    /\ thrownBy' = [thrownBy EXCEPT ![s] = "task"]
    /\ closed' = [closed EXCEPT ![s] = TRUE]
    /\ clearedDue' = [clearedDue EXCEPT ![s] = PendingTimerDue(s)]
    /\ Finally(s, timers[s], cancelCallbacks, TRUE)
    /\ UNCHANGED <<now, setupVars, lastEditTime, pendingEditText, pendingEditTimer,
                   timerSeq, editVars, clickVars, deletes, deleteAt, replies, settleVars,
                   channelSessions, updates>>
    /\ UNCHANGED <<classifyVars, channelId, resetVars>>

\* msg.delete settled (deleteProgress never rejects; a rejection of the
\* awaited call would leave through the finally block): the cancelled
\* session ends here, any other goes on to reply.
DeleteSettle(s, o) ==
    /\ pc[s] = "deleting"
    /\ placeholder' = [placeholder EXCEPT ![s] = IF o = "ok" THEN "deleted" ELSE @]
    /\ IF DeleteProgress(o) = "throws"
       THEN /\ Finally(s, timers[s], cancelCallbacks, TRUE)
            /\ thrownBy' = [thrownBy EXCEPT ![s] = "delete"]
            /\ UNCHANGED replies
       ELSE IF IsCancelled(taskResult[s].response)
       THEN /\ Finally(s, timers[s], cancelCallbacks, FALSE)
            /\ UNCHANGED <<replies, thrownBy>>
       ELSE /\ replies' = [replies EXCEPT
                   ![s] = @ + ReplyMessages(FinalResponse(taskResult[s].response))]
            /\ pc' = [pc EXCEPT ![s] = "replying"]
            /\ UNCHANGED <<typingVars, timers, registryVars, errorReports, exit,
                           cleanups, thrownBy>>
    /\ UNCHANGED <<now, progressMsg, sendOk, cancelId, lastEditTime, pendingEditText,
                   pendingEditTimer, timerSeq, editVars, clickVars, deletes, deleteAt,
                   terminal, settleVars, taskResult, channelSessions,
                   updates, closed, clearedDue>>
    /\ UNCHANGED <<classifyVars, channelId, resetVars>>

\* helpers.reply settled: a rejection leaves through the finally block to
\* the dispatch layer.
ReplySettle(s, o) ==
    /\ pc[s] = "replying"
    /\ Finally(s, timers[s], cancelCallbacks, Reply(o) = "throws")
    /\ thrownBy' = [thrownBy EXCEPT ![s] = IF Reply(o) = "throws" THEN "reply" ELSE @]
    /\ UNCHANGED <<now, setupVars, lastEditTime, pendingEditText, pendingEditTimer,
                   timerSeq, editVars, clickVars, deletes, deleteAt, replies, terminal,
                   settleVars, taskResult, channelSessions, updates, closed,
                   clearedDue>>
    /\ UNCHANGED <<classifyVars, channelId, resetVars>>

\* The dispatch layer's message.reply of the error settled; a failure of it
\* is ignored.
ErrorReportSettle(s, o) ==
    /\ pc[s] = "reporting"
    /\ escaped' = IF ErrorReport(o) = "throws" THEN escaped + 1 ELSE escaped
    /\ reportFailed' = [reportFailed EXCEPT ![s] = (o = "throws")]
    /\ pc' = [pc EXCEPT ![s] = "done"]
    /\ UNCHANGED <<now, setupVars, debounceVars, typingVars, editVars,
                   registryVars, clickVars, outVars, editSucceeded,
                   taskResult, channelSessions, updates, closed, clearedDue>>
    /\ UNCHANGED <<classifyVars, channelId, resetVars>>

\* The setInterval callback: a typing signal, errors ignored.
KeepaliveTick(s, o) ==
    /\ typingInterval[s]
    /\ now >= typingDue[s]
    /\ typingDue' = [typingDue EXCEPT ![s] = @ + TYPING_INTERVAL_MS]
    /\ typingLog' = [typingLog EXCEPT ![s] = Append(@, [at |-> now, outcome |-> o])]
    /\ escaped' = IF SendTyping(o) = "throws" THEN escaped + 1 ELSE escaped
    /\ UNCHANGED <<now, pc, setupVars, debounceVars, typingInterval, editVars,
                   registryVars, clickVars, outVars, editSucceeded, reportFailed,
                   taskResult, channelSessions, updates, closed, clearedDue>>
    /\ UNCHANGED <<classifyVars, channelId, resetVars>>

\* ------------------------------------------------- InteractionCreate
\* A button interaction with customId token.  The abort callback of
\* session s is `() => controller.abort()` of that session.
StaleKind(token) ==
    IF token \in live THEN {}
    ELSE IF \E s \in Sessions : cancelId[s] = token /\ closed[s]
         THEN {"released"} ELSE {"never"}

\* a handler that drops the entry once its callback ran
RegistryAfterTrigger_OneShot(reg, token) == UnregisterCancel(reg, token)
\* the handler reads the registry (cancelCallbacks.get) and never writes it
RegistryAfterTrigger(reg, token) == reg

HandleInteraction(token, o) ==
    /\ \A s \in Sessions :
        (cancelId[s] = token /\ token \in live) => liveClicks[s] < MaxClicks
    /\ escaped' = IF InteractionAck(o) = "throws" THEN escaped + 1 ELSE escaped
    /\ staleClicks' = staleClicks \cup StaleKind(token)
    /\ liveClicks' = [s \in Sessions |->
           IF cancelId[s] = token /\ token \in live
           THEN liveClicks[s] + 1 ELSE liveClicks[s]]
    /\ cancelCallbacks' = RegistryAfterTrigger(cancelCallbacks, token)
    /\ UNCHANGED live
    /\ IF token \in DOMAIN cancelCallbacks
       THEN LET owner == cancelCallbacks[token]
            IN  /\ cbCalls[owner] < MaxClicks
                /\ aborted' = [aborted EXCEPT ![owner] = TRUE]
                /\ cbCalls' = [cbCalls EXCEPT ![owner] = @ + 1]
                /\ staleCalls' = (staleCalls \/ token \notin live)
       ELSE UNCHANGED <<aborted, cbCalls, staleCalls>>
    /\ UNCHANGED <<now, pc, setupVars, debounceVars, typingVars, editVars,
                   outVars, editSucceeded, reportFailed, taskResult,
                   channelSessions, updates, closed, clearedDue>>
    /\ UNCHANGED <<classifyVars, channelId, resetVars>>

\* A press of a button of a placeholder.
Trigger(token, o) ==
    /\ HandleInteraction(token, o)
    /\ UNCHANGED <<lastOp, regLog>>

\* The buttons a user can press: one per placeholder that was created.
Buttons(SS) == {cancelId[s] : s \in {x \in SS : placeholder[x] # "none"}}

\* ----------------------------------------------------------------- clock
\* The clock is followed while a task runs: every debounce and keepalive
\* deadline is relative to a reading taken after the task was started.
Tick(step) ==
    /\ now + step <= Horizon
    /\ \E s \in Sessions : pc[s] = "running"
    /\ now' = now + step
    /\ UNCHANGED <<pc, setupVars, debounceVars, typingVars, editVars,
                   registryVars, clickVars, outVars, settleVars, taskResult,
                   channelSessions, updates, closed, clearedDue>>
    /\ UNCHANGED <<classifyVars, channelId, resetVars>>

SessionNext(s) ==
    \/ MessageCreate(s)
    \/ \E o \in Outcomes : StartSession(s, o)
    \/ \E o \in Outcomes : RemoteSend(s, o)
    \/ HandlerSetup(s)
    \/ \E t \in RawTexts : TaskEmit(s, t)
    \/ \E r \in TaskResponses(aborted[s]), sid \in {0, s} : TaskReturn(s, r, sid)
    \/ TaskRaise(s)
    \/ \E o \in Outcomes : DeleteSettle(s, o)
    \/ \E o \in Outcomes : ReplySettle(s, o)
    \/ \E o \in Outcomes : ErrorReportSettle(s, o)
    \/ TimerFire(s)
    \/ \E o \in Outcomes : EditSettle(s, o)

NextOn(SS) ==
    \/ \E s \in SS : SessionNext(s)
    \/ \E tok \in Buttons(SS), o \in Outcomes : Trigger(tok, o)
    \/ Tick(CoarseStep)

Next == NextOn(Sessions)
Spec == Init /\ [][Next]_vars

\* One mention in flight.
NextOne == NextOn(Solo)
SpecOne == Init /\ [][NextOne]_vars

\* -------------------------------------------------------------- scenario
\* One mention whose task emits updates classified to "A", "B", "C" at 0,
\* 500 and 900 ms after the first, on a clock of FineStep ms whose timers
\* fire on their deadline.
ScenarioABC ==
    << [text |-> Txt("A", 1), at |-> 0],
       [text |-> Txt("B", 1), at |-> 5 * FineStep],
       [text |-> Txt("C", 1), at |-> 9 * FineStep] >>

ScriptDue(s) ==
    LET n == Len(updates[s])
    IN  /\ n < Len(ScenarioABC)
        /\ n > 0 => now = updates[s][1].at + ScenarioABC[n + 1].at

ScriptEmit(s) ==
    /\ ScriptDue(s)
    /\ EmitUpdate(s, ScenarioABC[Len(updates[s]) + 1].text)

\* Time passes only when nothing is due: no timer and, while the task runs,
\* no scripted event after the first.
ScenarioTick ==
    /\ \A s \in Solo :
        /\ \A t \in timers[s] : now < t.deadline
        /\ ~(pc[s] = "running" /\ TaskMayEmit(aborted[s])
               /\ Len(updates[s]) > 0 /\ ScriptDue(s))
    /\ Tick(FineStep)

ScenarioSession(s) ==
    \/ MessageCreate(s)
    \/ \E o \in Outcomes : StartSession(s, o)
    \/ \E o \in Outcomes : RemoteSend(s, o)
    \/ HandlerSetup(s)
    \/ ScriptEmit(s)
    \/ \E r \in TaskResponses(aborted[s]), sid \in {0, s} : TaskReturn(s, r, sid)
    \/ TaskRaise(s)
    \/ \E o \in Outcomes : DeleteSettle(s, o)
    \/ \E o \in Outcomes : ReplySettle(s, o)
    \/ \E o \in Outcomes : ErrorReportSettle(s, o)
    \/ TimerFire(s)
    \/ \E o \in Outcomes : EditSettle(s, o)

NextABC ==
    \/ \E s \in Solo : ScenarioSession(s)
    \/ \E tok \in Buttons(Solo), o \in Outcomes : Trigger(tok, o)
    \/ ScenarioTick

SpecABC == Init /\ [][NextABC]_vars

\* -------------------------------------------------------------- registry
\* Several mentions in flight on the one registry, their tasks emitting
\* nothing and returning a response with a session id: every session's
\* button can be pressed at any time.
RegistrySession(s) ==
    \/ MessageCreate(s)
    \/ \E o \in Outcomes : StartSession(s, o)
    \/ \E o \in Outcomes : RemoteSend(s, o)
    \/ HandlerSetup(s)
    \/ \E r \in TaskResponses(aborted[s]) \ {""} : TaskReturn(s, r, s)
    \/ TaskRaise(s)
    \/ \E o \in Outcomes : DeleteSettle(s, o)
    \/ \E o \in Outcomes : ReplySettle(s, o)
    \/ \E o \in Outcomes : ErrorReportSettle(s, o)

NextRegistry ==
    \/ \E s \in Sessions : RegistrySession(s)
    \/ \E tok \in Buttons(Sessions), o \in Outcomes : Trigger(tok, o)

SpecRegistry == Init /\ [][NextRegistry]_vars

\* ---------------------------------------------------- registry operations
\* registerCancel, unregisterCancel and the interaction handler applied to
\* the registry in any order, on any of OpTokens and Callbacks, outside any
\* session.
RegistryFrame ==
    UNCHANGED <<now, pc, setupVars, debounceVars, typingVars, editVars, outVars,
                settleVars, taskResult, channelSessions, updates, closed,
                clearedDue, classifyVars, channelId, resetVars>>

RegisterOp(t, c) ==
    /\ cancelCallbacks' = RegisterCancel(cancelCallbacks, t, c)
    /\ live' = live \cup {t}
    /\ lastOp' = [kind |-> "register", token |-> t, callback |-> c]
    /\ regLog' = [regLog EXCEPT ![t] =
           IF @ = <<>> THEN <<c>> ELSE <<@[Len(@)], c>>]
    /\ UNCHANGED <<cbCalls, liveClicks, staleClicks, staleCalls, aborted>>
    /\ RegistryFrame

UnregisterOp(t) ==
    /\ cancelCallbacks' = UnregisterCancel(cancelCallbacks, t)
    /\ live' = live \ {t}
    /\ lastOp' = [kind |-> "unregister", token |-> t, callback |-> 0]
    /\ regLog' = [regLog EXCEPT ![t] = <<>>]
    /\ UNCHANGED <<cbCalls, liveClicks, staleClicks, staleCalls, aborted>>
    /\ RegistryFrame

TriggerOp(t, o) ==
    /\ HandleInteraction(t, o)
    /\ lastOp' = [kind |-> "trigger", token |-> t, callback |-> 0]
    /\ UNCHANGED regLog

NextRegistryOps ==
    \/ \E t \in OpTokens, c \in Callbacks : RegisterOp(t, c)
    \/ \E t \in OpTokens : UnregisterOp(t)
    \/ \E t \in OpTokens, o \in Outcomes : TriggerOp(t, o)

SpecRegistryOps == Init /\ [][NextRegistryOps]_vars

\* ------------------------------------------------------------ keepalive
\* One mention whose task emits nothing, on a clock of half the keepalive
\* period that is followed for as long as the interval is armed, MaxTicks
\* periods long.
KeepaliveStep == TYPING_INTERVAL_MS \div 2
KeepaliveHorizon == Epoch + MaxTicks * TYPING_INTERVAL_MS

KeepaliveClock ==
    /\ now + KeepaliveStep <= KeepaliveHorizon
    /\ \E s \in Solo : typingInterval[s]
    /\ now' = now + KeepaliveStep
    /\ UNCHANGED <<pc, setupVars, debounceVars, typingVars, editVars,
                   registryVars, clickVars, outVars, settleVars, taskResult,
                   channelSessions, updates, closed, clearedDue, classifyVars, channelId, resetVars>>

KeepaliveSession(s) ==
    \/ MessageCreate(s)
    \/ \E o \in Outcomes : StartSession(s, o)
    \/ \E o \in Outcomes : RemoteSend(s, o)
    \/ HandlerSetup(s)
    \/ \E r \in TaskResponses(aborted[s]) \ {""} : TaskReturn(s, r, s)
    \/ TaskRaise(s)
    \/ \E o \in Outcomes : DeleteSettle(s, o)
    \/ \E o \in Outcomes : ReplySettle(s, o)
    \/ \E o \in Outcomes : ErrorReportSettle(s, o)
    \/ \E o \in Outcomes : KeepaliveTick(s, o)

NextKeepalive ==
    \/ \E s \in Solo : KeepaliveSession(s)
    \/ \E tok \in Buttons(Solo), o \in Outcomes : Trigger(tok, o)
    \/ KeepaliveClock

SpecKeepalive == Init /\ [][NextKeepalive]_vars

\* ------------------------------------------------------------ classifier
\* The task calls onStreamJson with the event, in either copy of the entry
\* point; what updateProgress then does with the text is UpdateProgress.
StreamJson ==
    /\ ~classified
    /\ streamMessage \in Messages
    /\ streamResult' = OnStreamJson(variant, streamMessage)
    /\ classified' = TRUE
    /\ UNCHANGED <<variant, streamMessage, now, pc, setupVars, debounceVars,
                   typingVars, editVars, registryVars, clickVars, outVars,
                   settleVars, taskResult, channelSessions, updates, closed,
                   clearedDue, channelId, resetVars>>

\* Any event, in either copy.
InitClassify ==
    /\ SessionsIdle
    /\ OwnChannels
    /\ NoReset
    /\ variant \in Variants
    /\ streamMessage \in Messages
    /\ classified = FALSE
    /\ streamResult = NoCalls

NextClassify == StreamJson

SpecClassify == InitClassify /\ [][NextClassify]_vars

\* ---------------------------------------------------------------- reset
\* The handler's first statement, in the copy of the entry point that has
\* the cancel button: a mention whose prompt is "reset" is answered
\* without a session.
RESET_ACK_TEXT == "session reset"

\* a reset that forgets the requesting channel's session only
ClearSessions_Requesting(map, channel) == [map EXCEPT ![channel] = 0]
\* channelSessions.clear()
ClearSessions(map, channel) == [c \in DOMAIN map |-> 0]

InFlight(s) == pc[s] \notin {"idle", "done"}

\* MessageCreate for a mention with the prompt "reset" in channel c:
\* channelSessions.clear(), and the handler suspends at
\* `await helpers.reply(...)`.
ResetCommand(c) ==
    /\ variant = "cancel"
    /\ resetPc = "idle"
    /\ resets < MaxResets
    /\ channelSessions' = ClearSessions(channelSessions, c)
    /\ resetAcks' = resetAcks + ReplyMessages(RESET_ACK_TEXT)
    /\ resets' = resets + 1
    /\ resetPc' = "replying"
    /\ sawReset' = [s \in Sessions |-> sawReset[s] \/ InFlight(s)]
    /\ UNCHANGED <<now, pc, setupVars, debounceVars, typingVars, editVars,
                   registryVars, clickVars, outVars, settleVars, taskResult,
                   updates, closed, clearedDue, classifyVars, channelId>>

\* The reply settled: the handler returns, or its rejection reaches the
\* dispatch layer, which reports it.
ResetReplySettle(o) ==
    /\ resetPc = "replying"
    /\ resetPc' = IF Reply(o) = "throws" THEN "reporting" ELSE "idle"
    /\ UNCHANGED <<now, pc, setupVars, debounceVars, typingVars, editVars,
                   registryVars, clickVars, outVars, settleVars, taskResult,
                   channelSessions, updates, closed, clearedDue, classifyVars,
                   channelId, resets, resetAcks, sawReset>>

\* The dispatch layer's message.reply of the error settled.
ResetErrorReportSettle(o) ==
    /\ resetPc = "reporting"
    /\ resetPc' = "idle"
    /\ escaped' = IF ErrorReport(o) = "throws" THEN escaped + 1 ELSE escaped
    /\ UNCHANGED <<now, pc, setupVars, debounceVars, typingVars, editVars,
                   registryVars, clickVars, outVars, editSucceeded, reportFailed,
                   taskResult, channelSessions, updates, closed, clearedDue,
                   classifyVars, channelId, resets, resetAcks, sawReset>>

\* Two mentions, each in any channel, their tasks emitting nothing and
\* returning with or without a session id, and reset requests from any
\* channel, in any order.  The sessions' own remote calls succeed, and
\* the button of the first can be pressed while its token is registered.
Pair == {1, 2}

ResetSession(s) ==
    \/ MessageCreate(s)
    \/ StartSession(s, "ok")
    \/ RemoteSend(s, "ok")
    \/ HandlerSetup(s)
    \/ \E r \in TaskResponses(aborted[s]) \ {""}, sid \in {0, s} : TaskReturn(s, r, sid)
    \/ TaskRaise(s)
    \/ DeleteSettle(s, "ok")
    \/ ReplySettle(s, "ok")
    \/ ErrorReportSettle(s, "ok")

InitReset ==
    /\ SessionsIdle
    /\ channelId \in {f \in [Sessions -> Channels] :
                        \A s \in Sessions \ Pair : f[s] = s % 2}
    /\ NoReset
    /\ variant = "cancel"
    /\ ClassifierIdle

NextReset ==
    \/ \E s \in Pair : ResetSession(s)
    \/ \E tok \in Buttons(Solo) \cap DOMAIN cancelCallbacks : Trigger(tok, "ok")
    \/ \E c \in Channels : ResetCommand(c)
    \/ \E o \in Outcomes : ResetReplySettle(o)
    \/ \E o \in Outcomes : ResetErrorReportSettle(o)

SpecReset == InitReset /\ [][NextReset]_vars

\* ======================================================================
\* Properties
\* ======================================================================
Last(seq) == seq[Len(seq)]
\* what is compared of an issued edit: when, what, and who issued it
Shown(e) == [at |-> e.at, text |-> e.text, by |-> e.by]
\* the updates an edit stands for: those after the previous edit's
BurstStart(s, k) == IF k = 1 THEN 1 ELSE edits[s][k - 1].upTo + 1

\* C1: within one session any two consecutive progress edits, issued in the
\* call of updateProgress or by the debounce timer's callback, are at least
\* EDIT_DEBOUNCE_MS apart, timers firing on or after their deadline.
C1_EditSpacing ==
    \A s \in Sessions : \A k \in 1..(Len(edits[s]) - 1) :
        edits[s][k + 1].at - edits[s][k].at >= EDIT_DEBOUNCE_MS

C1_Witness ==
    \E s \in Sessions :
        /\ Len(edits[s]) >= 2
        /\ edits[s][1].by = "call"
        /\ edits[s][2].by = "timer"
        /\ edits[s][2].at > edits[s][1].at + EDIT_DEBOUNCE_MS

\* C2 as stated: when the session has ended (and had a placeholder), the
\* last text passed to updateProgress was issued as an edit.
C2_Original ==
    \A s \in Sessions :
        (pc[s] = "done" /\ progressMsg[s] /\ updates[s] # <<>>) =>
            /\ edits[s] # <<>>
            /\ Last(edits[s]).text = Cap(Last(updates[s]).text)

\* C2 amended: while the session has a placeholder and is not torn down,
\* the most recent text passed to updateProgress, capped, is either the
\* text of the last edit issued or is pending with the debounce timer armed
\* for lastEditTime + EDIT_DEBOUNCE_MS, whose callback issues it.
C2_LatestIssuedOrArmed ==
    \A s \in Sessions :
        (progressMsg[s] /\ ~closed[s] /\ updates[s] # <<>>) =>
            IF Truthy(pendingEditText[s])
            THEN /\ pendingEditText[s] = Cap(Last(updates[s]).text)
                 /\ \E t \in timers[s] :
                        /\ t.id = pendingEditTimer[s]
                        /\ t.deadline = lastEditTime[s] + EDIT_DEBOUNCE_MS
            ELSE /\ edits[s] # <<>>
                 /\ Last(edits[s]).text = Cap(Last(updates[s]).text)
                 /\ Last(edits[s]).upTo = Len(updates[s])

C2_Witness ==
    \E s \in Sessions :
        /\ ~closed[s]
        /\ Len(updates[s]) >= 2
        /\ Len(edits[s]) >= 2
        /\ Last(edits[s]).by = "timer"
        /\ Last(edits[s]).upTo = Len(updates[s])
        /\ Last(edits[s]).text.cut

ShownEdits(s) == [k \in 1..Len(edits[s]) |-> Shown(edits[s][k])]
ScenarioStart(s) == updates[s][1].at
ExpectA(s) ==
    [at |-> ScenarioStart(s), text |-> ScenarioABC[1].text, by |-> "call"]
ExpectC(s) ==
    [at |-> ScenarioStart(s) + EDIT_DEBOUNCE_MS, text |-> ScenarioABC[3].text,
     by |-> "timer"]
ScenarioPlayed(s) ==
    /\ Len(updates[s]) = Len(ScenarioABC)
    /\ \A i \in 1..Len(ScenarioABC) :
        updates[s][i] = [at |-> ScenarioStart(s) + ScenarioABC[i].at,
                         text |-> ScenarioABC[i].text]

\* C4: with no prior edit and updates "A" at 0, "B" at 500 and "C" at 900 ms,
\* "A" is issued in its call at 0, "B" is never issued, and "C" is issued
\* once, by the timer at 2000 ms: the edits are exactly these two once the
\* session has run past 2000 ms (the clock of this specification stops at
\* the teardown), and no other edit is issued at any time.
C4_ScenarioEdits ==
    \A s \in Solo :
        (progressMsg[s] /\ updates[s] # <<>>) =>
            /\ Shown(edits[s][1]) = ExpectA(s)
            /\ ScenarioPlayed(s) =>
                /\ ShownEdits(s) \in
                       {<<ExpectA(s)>>, <<ExpectA(s), ExpectC(s)>>}
                /\ now > ScenarioStart(s) + EDIT_DEBOUNCE_MS
                       => ShownEdits(s) = <<ExpectA(s), ExpectC(s)>>

C4_Witness ==
    \E s \in Solo :
        /\ ScenarioPlayed(s)
        /\ ShownEdits(s) = <<ExpectA(s), ExpectC(s)>>
        /\ pc[s] = "done"

\* ------------------------------------------------------------------ C5
UpdateCalled(s) == Len(updates'[s]) = Len(updates[s]) + 1
WindowElapsed(s) ==
    edits[s] = <<>> \/ now - Last(edits[s]).at >= EDIT_DEBOUNCE_MS
EditedInCall(s) ==
    /\ Len(edits'[s]) = Len(edits[s]) + 1
    /\ Shown(Last(edits'[s])) =
           [at |-> now, text |-> Cap(Last(updates'[s]).text), by |-> "call"]
    /\ lastEditTime'[s] = now
    /\ timers'[s] = timers[s]
    /\ inFlight'[s] = inFlight[s] + 1

\* C5: a call of updateProgress (there being a progress message to edit)
\* made when no edit was issued yet, or EDIT_DEBOUNCE_MS or more after the
\* last issued edit, issues the edit in the call with the capped text,
\* touches no timer and sets lastEditTime to the current time.
C5_ImmediateEdit ==
    [][\A s \in Sessions :
          (UpdateCalled(s) /\ progressMsg[s] /\ WindowElapsed(s)) =>
              EditedInCall(s)]_vars

C5_Witness ==
    \E s \in Sessions :
        /\ Len(edits[s]) >= 2
        /\ edits[s][2].by = "call"
        /\ edits[s][2].at = edits[s][1].at + EDIT_DEBOUNCE_MS
        /\ lastEditTime[s] = edits[s][2].at

\* ------------------------------------------------------------------ C6
\* C6: no edit is issued once the debounce teardown (the clearTimeout after
\* the task returned or raised) has run, also when the timer it cleared
\* was already due.
C6_NoEditAfterTeardown ==
    \A s \in Sessions : \A k \in 1..Len(edits[s]) : ~edits[s][k].closed

C6_Witness ==
    \E s \in Sessions :
        /\ clearedDue[s]
        /\ Truthy(pendingEditText[s])
        /\ pc[s] = "done"

\* ------------------------------------------------------------------ C7
Exited(s) == pc[s] \in {"reporting", "done"}
CleanedUp(s) ==
    /\ ~typingInterval[s]
    /\ timers[s] = {}
    /\ cancelId[s] \notin DOMAIN cancelCallbacks

\* C7: once the handler has returned or thrown, on any path, the keepalive
\* interval is cleared, no debounce timer is armed and the cancel token is
\* not in the registry.
C7_CleanupOnEveryExit ==
    \A s \in Sessions : Exited(s) => (exit[s] # "" /\ CleanedUp(s))

C7_Witness ==
    \E s \in Sessions :
        /\ pc[s] = "reporting"
        /\ thrownBy[s] = "reply"
        /\ clearedDue[s]

\* ------------------------------------------------------------------ C8
TriggeredBeforeAnyEvent(s) == aborted[s] /\ updates[s] = <<>>

TerminalOf(result) ==
    IF result.kind = "raised" THEN "FAILED"
    ELSE IF result.response = CANCELLED_RESPONSE THEN "CANCELLED"
    ELSE "COMPLETED"

EveryEditThrew(s) == ~editSucceeded[s]

\* the steps that take an open session towards its end
Advance(s) ==
    \/ \E o \in Outcomes : StartSession(s, o)
    \/ \E o \in Outcomes : RemoteSend(s, o)
    \/ HandlerSetup(s)
    \/ \E r \in TaskResponses(aborted[s]), sid \in {0, s} : TaskReturn(s, r, sid)
    \/ \E o \in Outcomes : DeleteSettle(s, o)
    \/ \E o \in Outcomes : ReplySettle(s, o)
    \/ \E o \in Outcomes : ErrorReportSettle(s, o)

\* C9: with every remote edit throwing, nothing escapes a handler, a
\* handler throws only for the task or the final reply, an open session can
\* always take its next step towards its end, and a session that has ended
\* is in the terminal state its task's outcome gives, cleaned up.
C9_EditFailuresAbsorbed ==
    /\ escaped = 0
    /\ \A s \in Sessions :
        EveryEditThrew(s) =>
            /\ pc[s] \notin {"idle", "done"} => ENABLED Advance(s)
            /\ exit[s] = "threw" => thrownBy[s] \in {"task", "reply"}
            /\ errorReports[s] = IF exit[s] = "threw" THEN 1 ELSE 0
            /\ pc[s] = "done" =>
                /\ terminal[s] = TerminalOf(taskResult[s])
                /\ cleanups[s] = 1
                /\ CleanedUp(s)

C9_Witness ==
    \E s \in Sessions :
        /\ pc[s] = "done"
        /\ Len(edits[s]) >= 2
        /\ inFlight[s] = 0
        /\ EveryEditThrew(s)
        /\ terminal[s] = "COMPLETED"

\* ----------------------------------------------------------------- C10
\* C10: a trigger of a token that is not registered (never registered, or
\* unregistered since) invokes no callback and raises nothing, and no step
\* other than a handler's own changes the registry.
C10_StaleTriggerIsNoop ==
    /\ [](~staleCalls /\ escaped = 0)
    /\ [][pc' = pc => cancelCallbacks' = cancelCallbacks]_vars

C10_Witness ==
    /\ staleClicks = {"never", "released"}
    /\ \E s, r \in Sessions :
        /\ pc[s] = "done" /\ cbCalls[s] > 0
        /\ pc[r] = "running" /\ ~aborted[r]

\* ----------------------------------------------------------------- C11
\* C11: every trigger of a registered token runs that token's callback
\* exactly once and leaves the registry as it was, the entry in place; an
\* entry leaves the registry only where the handler unregisters it.
C11_TriggerInvokesOnceAndKeeps ==
    /\ [](\A s \in Sessions : cbCalls[s] = liveClicks[s])
    /\ [][\A s \in Sessions :
            liveClicks'[s] # liveClicks[s] =>
                /\ cbCalls'[s] = cbCalls[s] + 1
                /\ \A r \in Sessions \ {s} : cbCalls'[r] = cbCalls[r]
                /\ cancelCallbacks' = cancelCallbacks
                /\ cancelId[s] \in DOMAIN cancelCallbacks'
                /\ cancelCallbacks'[cancelId[s]] = s]_vars
    /\ [][\A t \in DOMAIN cancelCallbacks :
            t \notin DOMAIN cancelCallbacks' => (t \in live /\ t \notin live')]_vars

C11_Witness ==
    \E s \in Sessions :
        /\ liveClicks[s] >= 2
        /\ cbCalls[s] = liveClicks[s]
        /\ pc[s] = "running"
        /\ cancelId[s] \in DOMAIN cancelCallbacks

\* ----------------------------------------------------------------- C12
\* C12: a register overwrites the entry of its token: the registry holds
\* one entry per registered token, the callback registered last, and a
\* trigger runs that callback and never the one it replaced.
C12_RegisterOverwrites ==
    /\ [](\A t \in OpTokens :
            IF regLog[t] = <<>>
            THEN t \notin DOMAIN cancelCallbacks
            ELSE /\ t \in DOMAIN cancelCallbacks
                 /\ cancelCallbacks[t] = Last(regLog[t]))
    /\ [](DOMAIN cancelCallbacks \subseteq OpTokens)
    /\ [][\A c \in Callbacks :
            cbCalls'[c] # cbCalls[c] =>
                /\ lastOp'.kind = "trigger"
                /\ regLog[lastOp'.token] # <<>>
                /\ c = Last(regLog[lastOp'.token])
                /\ cbCalls'[c] = cbCalls[c] + 1]_vars
    /\ [][(lastOp'.kind = "trigger" /\ regLog[lastOp'.token] # <<>>
             /\ lastOp' # lastOp) =>
                cbCalls'[Last(regLog[lastOp'.token])] # cbCalls[Last(regLog[lastOp'.token])]]_vars

C12_Witness ==
    /\ lastOp.kind = "trigger"
    /\ LET log == regLog[lastOp.token]
       IN  /\ Len(log) = 2
           /\ log[1] # log[2]
           /\ cbCalls[log[2]] = 1
           /\ cbCalls[log[1]] = 0

\* ----------------------------------------------------------------- C13
RegisteredTokens == {cancelId[s] : s \in Sessions} \ {NoToken}
\* the handler left the success path through its finally block
SecondUnregister(s) ==
    pc[s] \in {"deleting", "replying"} /\ pc'[s] \in {"done", "reporting"}

\* C13: unregister of an absent token changes nothing, a second unregister
\* of a token (the finally block's, after the success path's) changes
\* nothing, two unregisters give the same registry in either order, none
\* raises, and an unregister removes only the entry of its own token.
C13_UnregisterIdempotent ==
    /\ [](\A t, u \in RegisteredTokens :
            LET once == UnregisterCancel(cancelCallbacks, t)
            IN  /\ UnregisterCancel(once, t) = once
                /\ t \notin DOMAIN cancelCallbacks => once = cancelCallbacks
                /\ DOMAIN once = DOMAIN cancelCallbacks \ {t}
                /\ \A v \in DOMAIN once : once[v] = cancelCallbacks[v]
                /\ UnregisterCancel(once, u)
                       = UnregisterCancel(UnregisterCancel(cancelCallbacks, u), t))
    /\ [](escaped = 0)
    /\ [](\A s \in Sessions :
            /\ closed[s] => cancelId[s] \notin DOMAIN cancelCallbacks
            /\ pc[s] = "running" =>
                /\ cancelId[s] \in DOMAIN cancelCallbacks
                /\ cancelCallbacks[cancelId[s]] = s)
    /\ [][\A s \in Sessions :
            SecondUnregister(s) => cancelCallbacks' = cancelCallbacks]_vars

C13_Witness ==
    \E s, r \in Sessions :
        /\ pc[s] = "done" /\ exit[s] = "returned" /\ replies[s] = 1
        /\ cleanups[s] = 1
        /\ pc[r] = "running"
        /\ DOMAIN cancelCallbacks = {cancelId[r]}

\* ----------------------------------------------------------------- C14
\* C14 as stated: a session has at any instant at most one thing
\* outstanding, an edit in flight or an armed debounce timer.
C14_Original ==
    \A s \in Sessions : inFlight[s] + Cardinality(timers[s]) <= 1

\* C14 amended: a session has at any instant at most one armed debounce
\* timer, the one pendingEditTimer names, and a text is pending only with
\* it armed (until the teardown); the edits in flight are edits issued.
C14_OneTimerArmed ==
    \A s \in Sessions :
        /\ Cardinality(timers[s]) <= 1
        /\ \A t \in timers[s] : t.id = pendingEditTimer[s]
        /\ (Truthy(pendingEditText[s]) /\ ~closed[s]) => timers[s] # {}
        /\ inFlight[s] <= Len(edits[s])

C14_Witness ==
    \E s \in Sessions :
        /\ inFlight[s] = 2
        /\ timers[s] # {}
        /\ timerSeq[s] >= 2

\* ----------------------------------------------------------------- C15
\* C15 as stated: every edit carries the text passed by the most recent
\* call of updateProgress made before it was issued.
C15_Original ==
    \A s \in Sessions : \A k \in 1..Len(edits[s]) :
        /\ edits[s][k].upTo \in 1..Len(updates[s])
        /\ edits[s][k].text = updates[s][edits[s][k].upTo].text

\* C15 amended: every edit carries the text, cut to PROGRESS_CAP characters
\* and "..." when longer, of the most recent call of updateProgress made
\* before it was issued, and each edit stands for a later call than the
\* edit before it: the edits are, in order, a subsequence of the calls.
C15_EditsFollowCalls ==
    \A s \in Sessions : \A k \in 1..Len(edits[s]) :
        /\ edits[s][k].upTo \in 1..Len(updates[s])
        /\ edits[s][k].text = Cap(updates[s][edits[s][k].upTo].text)
        /\ k > 1 => edits[s][k - 1].upTo < edits[s][k].upTo

C15_Witness ==
    \E s \in Sessions :
        /\ Len(edits[s]) = 2
        /\ Len(updates[s]) = 3
        /\ edits[s][1].upTo = 1
        /\ edits[s][2].upTo = 3
        /\ edits[s][2].by = "timer"
        /\ edits[s][2].text.cut

\* ----------------------------------------------------------------- C16
Returned(s) == taskResult[s].kind = "result"
Sentinel(s) == Returned(s) /\ taskResult[s].response = CANCELLED_RESPONSE
DeletesDue(s) == IF progressMsg[s] THEN 1 ELSE 0

\* C16: a session whose task returned the cancellation sentinel issues the
\* delete of its placeholder (once, when it has one), sends no final reply
\* and reports no error, and ends by returning, CANCELLED.
C16_SentinelIsSilent ==
    \A s \in Sessions :
        Sentinel(s) =>
            /\ deletes[s] = DeletesDue(s)
            /\ replies[s] = 0
            /\ errorReports[s] = 0
            /\ terminal[s] = "CANCELLED"
            /\ pc[s] \in {"deleting", "done"}
            /\ pc[s] = "done" => exit[s] = "returned"

C16_Witness ==
    \E s \in Sessions :
        /\ Sentinel(s)
        /\ pc[s] = "done"
        /\ placeholder[s] = "deleted"
        /\ edits[s] # <<>>

\* ----------------------------------------------------------------- C17
\* C17: a session whose task returned another result than the sentinel,
\* an empty response included, issues the delete of its placeholder (once,
\* when it has one) and then sends one final reply; it is COMPLETED.
C17_ResultIsReplied ==
    \A s \in Sessions :
        (Returned(s) /\ ~Sentinel(s)) =>
            /\ deletes[s] = DeletesDue(s)
            /\ replies[s] = IF pc[s] = "deleting" THEN 0 ELSE 1
            /\ terminal[s] = "COMPLETED"
            /\ pc[s] \in {"deleting", "replying", "reporting", "done"}

C17_Witness ==
    \E s \in Sessions :
        /\ Returned(s) /\ taskResult[s].response = ""
        /\ pc[s] = "done"
        /\ exit[s] = "returned"
        /\ replies[s] = 1
        /\ placeholder[s] = "deleted"

\* ----------------------------------------------------------------- C18
Raised(s) == taskResult[s].kind = "raised"

\* C18: a session whose task raised has one error message reported by the
\* dispatch layer and no final reply; when that message cannot be sent the
\* failure is swallowed and nothing leaves the message handler.
C18_RaiseIsReportedOnce ==
    /\ escaped = 0
    /\ \A s \in Sessions :
        Raised(s) =>
            /\ errorReports[s] = 1
            /\ replies[s] = 0
            /\ terminal[s] = "FAILED"
            /\ exit[s] = "threw" /\ thrownBy[s] = "task"
            /\ pc[s] \in {"reporting", "done"}

C18_Witness ==
    \E s \in Sessions :
        /\ Raised(s)
        /\ pc[s] = "done"
        /\ reportFailed[s]
        /\ errorReports[s] = 1

WellFormed(m) ==
    /\ ~m.nullish
    /\ m.content.k \in {"undefined", "array"}
    /\ \A i \in 1..Len(m.content.items) :
          /\ ~m.content.items[i].nullish
          /\ m.content.items[i].name.k \in {"string", "undefined"}
          /\ m.content.items[i].text.k \in {"string", "undefined"}
          /\ m.content.items[i].thinking.k \in {"string", "undefined"}
Carries(m) == IF m.type = "assistant" /\ m.envelope THEN m.content.items ELSE <<>>
HasThinking(m) ==
    \E i \in 1..Len(Carries(m)) :
        Carries(m)[i].type = "thinking" /\ JsTruthy(Carries(m)[i].thinking)
HasToolUse(m) == \E i \in 1..Len(Carries(m)) : Carries(m)[i].type = "tool_use"
HasText(m) ==
    \E i \in 1..Len(Carries(m)) :
        /\ Carries(m)[i].type = "text"
        /\ Carries(m)[i].text.k = "string"
        /\ ~IsBlank(Carries(m)[i].text.chars)
IsResult(m) == m.type \in {"tool_result", "result"}
\* the form the priority order gives, "" for no update
ExpectedForm(m) ==
    IF HasThinking(m) THEN {"thinking"}
    ELSE IF HasToolUse(m) THEN {"tool", "toolRunning"}
    ELSE IF HasText(m) THEN {"writing"}
    ELSE IF IsResult(m) THEN {"results"}
    ELSE {""}
FormOf(result) == IF result.calls = <<>> THEN "" ELSE result.calls[1].form

\* C21: for a well-formed event the classifier makes at most one
\* updateProgress call, of the first form that applies in the order
\* thinking, tool use, non-blank text (each carried by an assistant event),
\* processing results (a tool_result or result event), nothing.
C21_FirstMatchWins ==
    /\ Len(streamResult.calls) <= 1
    /\ (classified /\ WellFormed(streamMessage)) =>
          FormOf(streamResult) \in ExpectedForm(streamMessage)

C21_Witness ==
    /\ classified
    /\ HasThinking(streamMessage)
    /\ HasToolUse(streamMessage)
    /\ WellFormed(streamMessage)
    /\ FormOf(streamResult) = "thinking"

\* ----------------------------------------------------------------- C22
\* the tool_use entry the classifier looks at
LastTool(m) == ToolUses(Carries(m))[Len(ToolUses(Carries(m)))]
ToolExamined(m) ==
    /\ ~m.nullish
    /\ m.content.k = "array"
    /\ \A i \in 1..Len(Carries(m)) : ~Carries(m)[i].nullish
    /\ ~HasThinking(m)
    /\ HasToolUse(m)
\* the fields summarizeToolInput names
SummaryKeys ==
    {"query", "content", "message", "page_id", "channelId", "threadId", "path",
     "file_path", "command"}
\* a field of the input examined that is present and is no string
NonStringSummaryField(m) ==
    /\ ToolExamined(m)
    /\ LastTool(m).name.k \in {"string", "undefined"}
    /\ \E i \in 1..Len(LastTool(m).input.fields) :
          /\ LastTool(m).input.fields[i].key \in SummaryKeys
          /\ LastTool(m).input.fields[i].val.k # "string"
\* a malformation the try block of onStreamJson runs into: the event is
\* null, the content of an assistant event is no array or holds a null
\* block, or the name of the tool_use entry examined is no string
BreaksClassifier(m) ==
    \/ m.nullish
    \/ /\ m.type = "assistant" /\ m.envelope
       /\ \/ m.content.k \notin {"undefined", "array"}
          \/ \E i \in 1..Len(m.content.items) : m.content.items[i].nullish
          \/ ToolExamined(m) /\ JsTruthy(LastTool(m).name)
                /\ LastTool(m).name.k # "string"

AbortCalled(s) == cbCalls'[s] = cbCalls[s] + 1

\* C23: a step that runs a session's abort callback sets the abort flag of
\* that session's controller and leaves the position of every handler, the
\* outcomes, the placeholders, the deletes issued, the timers, the
\* keepalive intervals and the registry as they were; a session is
\* CANCELLED only if its task returned the cancellation sentinel.
C23_CancelIsCooperative ==
    /\ [](\A s \in Sessions : terminal[s] = "CANCELLED" => Sentinel(s))
    /\ [][\A s \in Sessions : AbortCalled(s) =>
            /\ aborted'[s]
            /\ \A x \in Sessions \ {s} : aborted'[x] = aborted[x]
            /\ UNCHANGED <<pc, terminal, taskResult, placeholder, deletes, replies,
                           timers, pendingEditTimer, pendingEditText, typingInterval,
                           cancelCallbacks, cleanups>>]_vars

C23_Witness ==
    \E s \in Sessions :
        /\ cbCalls[s] > 0 /\ aborted[s]
        /\ pc[s] = "running"
        /\ terminal[s] = ""
        /\ timers[s] # {}
        /\ placeholder[s] = "live"
        /\ cancelId[s] \in DOMAIN cancelCallbacks

\* ----------------------------------------------------------------- C24
\* when sendProgressWithCancel was called: the clock reading the token was
\* made from, in the same turn
SendAt(s) == cancelId[s].at
RECURSIVE EditTimes(_)
EditTimes(es) == IF es = <<>> THEN <<>> ELSE <<es[1].at>> \o EditTimes(Tail(es))
\* the times of the visible mutations of the progress message, in order:
\* the send of the placeholder, the edits, the delete
Commits(s) ==
    (IF placeholder[s] # "none" THEN <<SendAt(s)>> ELSE <<>>)
    \o EditTimes(edits[s])
    \o (IF deleteAt[s] # 0 THEN <<deleteAt[s]>> ELSE <<>>)

\* C24 as stated: any two consecutive commits of a session, the send and
\* the delete counted, are at least EDIT_DEBOUNCE_MS apart.
C24_Original ==
    \A s \in Sessions : \A k \in 1..(Len(Commits(s)) - 1) :
        Commits(s)[k + 1] - Commits(s)[k] >= EDIT_DEBOUNCE_MS

\* C24: the commits of a session are in time order, and two consecutive
\* commits that are both edits are at least EDIT_DEBOUNCE_MS apart; the
\* first edit after the send and the delete after the last edit are not
\* held back.
C24_EditsSpacedInCommits ==
    \A s \in Sessions : \A k \in 1..(Len(Commits(s)) - 1) :
        /\ Commits(s)[k + 1] >= Commits(s)[k]
        /\ (k > 1 /\ k <= Len(edits[s])) =>
              Commits(s)[k + 1] - Commits(s)[k] >= EDIT_DEBOUNCE_MS

C24_Witness ==
    \E s \in Sessions :
        /\ placeholder[s] # "none"
        /\ Len(edits[s]) >= 2
        /\ edits[s][1].at = SendAt(s)
        /\ deleteAt[s] = Last(edits[s]).at

\* ----------------------------------------------------------------- C25
\* the registry entries the step removed
Removed == (DOMAIN cancelCallbacks) \ (DOMAIN cancelCallbacks')

\* C25: with several sessions in flight, no two sessions have the same
\* token and every registry entry holds the abort callback of the session
\* whose token it is registered under; a step that runs one session's abort
\* callback aborts no other session, and a step that removes an entry
\* removes one entry, that of the session taking the step.
C25_TokenPerSession ==
    /\ [](\A s, x \in Sessions :
            (s # x /\ cancelId[s] # NoToken /\ cancelId[x] # NoToken) =>
                cancelId[s] # cancelId[x])
    /\ [](\A t \in DOMAIN cancelCallbacks : cancelId[cancelCallbacks[t]] = t)
    /\ [][\A s \in Sessions : AbortCalled(s) =>
            \A x \in Sessions \ {s} :
                aborted'[x] = aborted[x] /\ cbCalls'[x] = cbCalls[x]]_vars
    /\ [][\A t \in Removed :
            /\ Removed = {t}
            /\ \E s \in Sessions : cancelId[s] = t /\ pc'[s] # pc[s]]_vars

C25_Witness ==
    \E s, x \in Sessions :
        /\ s # x
        /\ pc[s] = "deleting" /\ aborted[s] /\ cbCalls[s] > 0
        /\ cancelId[s] \notin DOMAIN cancelCallbacks
        /\ pc[x] = "running" /\ ~aborted[x]
        /\ cancelId[x] \in DOMAIN cancelCallbacks

\* ----------------------------------------------------------------- C26
\* the step issued an edit of session s
EditIssued(s) == Len(edits'[s]) > Len(edits[s])

\* C26 as stated: when an edit has been issued, no text is pending and no
\* timer of the session is armed.
C26_Original ==
    [][\A s \in Sessions : EditIssued(s) =>
          /\ pendingEditText'[s] = NullText
          /\ timers'[s] = {}]_vars

\* C26: when an edit has been issued no text is pending; no timer is armed
\* after an edit issued by the timer callback, and after an edit issued in
\* the call of updateProgress the only timer that can still be armed is one
\* that was already due, whose callback finds no pending text.
C26_PendingClearedByEdit ==
    [][\A s \in Sessions : EditIssued(s) =>
          /\ pendingEditText'[s] = NullText
          /\ Last(edits'[s]).by = "timer" => timers'[s] = {}
          /\ Last(edits'[s]).by = "call" =>
                /\ timers'[s] = timers[s]
                /\ \A t \in timers'[s] :
                      t.deadline <= now /\ ~TimerCommits(pendingEditText'[s], progressMsg[s])]_vars

C26_Witness ==
    \E s \in Sessions :
        /\ Len(edits[s]) >= 2
        /\ Last(edits[s]).by = "call"
        /\ Last(edits[s]).at = now
        /\ Last(edits[s]).upTo = Len(updates[s])
        /\ pendingEditText[s] = NullText
        /\ timers[s] # {}

\* ----------------------------------------------------------------- C27
\* C27: while a session's placeholder, with its cancel button, exists and
\* the session is not torn down, the session's token is in the registry,
\* and no press of a button finds the registry without an entry that was
\* never yet made.
C27_RegisteredWhileButtonShown ==
    /\ \A s \in Sessions :
          (placeholder[s] = "live" /\ ~closed[s]) =>
              cancelId[s] \in DOMAIN cancelCallbacks
    /\ "never" \notin staleClicks

\* ----------------------------------------------------------------- C28
\* the step ran the keepalive callback of session s
TypingTicked(s) == Len(typingLog'[s]) > Len(typingLog[s])
\* the handler is between its setInterval and its finally block
IntervalDue(s) == pc[s] \in {"sending", "sent", "running", "deleting", "replying"}

\* C28: the interval is armed from the handler's setInterval, before the
\* task is invoked, to its cleanup and at no other time; its k-th callback
\* runs no earlier than k periods of TYPING_INTERVAL_MS after the start and
\* the next is due one period after the last; a callback, failing or not,
\* changes neither the handler's position nor the outcome and throws
\* nothing, and none runs once the handler has returned or thrown.
C28_KeepaliveWhileRunning ==
    /\ [](\A s \in Sessions :
            /\ typingInterval[s] <=> IntervalDue(s)
            /\ typingInterval[s] =>
                  typingDue[s] = SendAt(s) + (Len(typingLog[s]) + 1) * TYPING_INTERVAL_MS
            /\ \A k \in 1..Len(typingLog[s]) :
                  typingLog[s][k].at >= SendAt(s) + k * TYPING_INTERVAL_MS)
    /\ [][\A s \in Sessions : TypingTicked(s) =>
            /\ IntervalDue(s)
            /\ cleanups[s] = 0
            /\ UNCHANGED <<pc, terminal, exit, escaped, typingInterval, taskResult>>]_vars

C28_Witness ==
    \E s \in Sessions :
        /\ Len(typingLog[s]) >= 2
        /\ typingLog[s][1].outcome = "throws"
        /\ typingLog[s][2].at - typingLog[s][1].at = TYPING_INTERVAL_MS
        /\ pc[s] = "done"
        /\ terminal[s] = "COMPLETED"

\* ----------------------------------------------------------------- C29
\* the thought the thinking update is made from
ThoughtOf(m) == ThinkingBlocks(Carries(m))[Len(ThinkingBlocks(Carries(m)))].thinking
ThinkingEvent(m) ==
    /\ WellFormed(m)
    /\ HasThinking(m)
Shown29 == streamResult.calls[1].body
\* q is t from some position on
IsSuffix(q, t) == Len(q) <= Len(t) /\ q = SubSeq(t, Len(t) - Len(q) + 1, Len(t))
\* q is what follows the first line break of t, or all of t when t has none
AfterFirstBreak(q, t) ==
    /\ IsSuffix(q, t)
    /\ IF \E i \in 1..Len(t) : t[i] = "\n"
       THEN /\ Len(q) < Len(t)
            /\ t[Len(t) - Len(q)] = "\n"
            /\ \A i \in 1..(Len(t) - Len(q) - 1) : t[i] # "\n"
       ELSE q = t
\* the preview of a long thought: "..." and the tail from its first line
\* break on
TailPreview(shown, thought) ==
    \E q \in {SubSeq(shown, 4, Len(shown))} :
        /\ Len(shown) >= 3 /\ SubSeq(shown, 1, 3) = Ellipsis
        /\ AfterFirstBreak(q, SubSeq(thought, Len(thought) - THINKING_TAIL + 1, Len(thought)))

\* C29 as stated: the thinking update shows the whole thought when it has
\* at most THINKING_TAIL characters and otherwise the trimmed tail.
C29_Original ==
    (classified /\ ThinkingEvent(streamMessage)) =>
        /\ FormOf(streamResult) = "thinking"
        /\ IF Len(ThoughtOf(streamMessage).chars) <= THINKING_TAIL
           THEN Shown29 = ThoughtOf(streamMessage).chars
           ELSE TailPreview(Shown29, ThoughtOf(streamMessage).chars)

\* C29: in the image variant the thinking update shows the whole thought
\* when it has at most THINKING_TAIL characters, and otherwise "..." and
\* the last THINKING_TAIL characters from their first line break on (all of
\* them when they hold no line break); in the cancel-button variant it
\* shows the whole thought whatever its length.
C29_ThinkingPreviewByVariant ==
    (classified /\ ThinkingEvent(streamMessage)) =>
        /\ FormOf(streamResult) = "thinking"
        /\ IF variant = "cancel" \/ Len(ThoughtOf(streamMessage).chars) <= THINKING_TAIL
           THEN Shown29 = ThoughtOf(streamMessage).chars
           ELSE TailPreview(Shown29, ThoughtOf(streamMessage).chars)

C29_Witness ==
    /\ classified
    /\ variant = "image"
    /\ ThinkingEvent(streamMessage)
    /\ Len(ThoughtOf(streamMessage).chars) > THINKING_TAIL
    /\ Len(Shown29) > 3
    /\ Len(Shown29) < THINKING_TAIL

\* ----------------------------------------------------------------- C30
\* an event classified by its tool_use entries, every field of the input
\* examined being a string
ToolEvent(m) ==
    /\ WellFormed(m)
    /\ ToolExamined(m)
    /\ \A i \in 1..Len(LastTool(m).input.fields) :
          LastTool(m).input.fields[i].val.k = "string"
\* the fixed order of the fields, and what each is shown as
SummaryOrder ==
    <<"query", "content", "message", "page_id", "channelId", "threadId", "path",
      "file_path", "command">>
ShownAs(key) ==
    CASE key \in {"query", "content"} -> "search"
      [] key = "message" -> "message"
      [] key = "page_id" -> "page"
      [] key = "channelId" -> "channel"
      [] key = "threadId" -> "thread"
      [] key \in {"path", "file_path"} -> "file"
      [] OTHER -> "command"
Present(input, key) == Field(input, key).chars # <<>>
\* text is value cut to max characters, "..." added when it was longer
CutTo(text, value, max) ==
    IF Len(value) <= max THEN text = value
    ELSE text = SubSeq(value, 1, max) \o Ellipsis
Shown30 == streamResult.calls[1]
\* the summary shown is that of the first present field of SummaryOrder
FromFirstPresent(input) ==
    \E i \in 1..Len(SummaryOrder) :
        LET key == SummaryOrder[i]
            value == Field(input, key).chars
        IN  /\ Present(input, key)
            /\ \A j \in 1..(i - 1) : ~Present(input, SummaryOrder[j])
            /\ Shown30.form = "tool"
            /\ Shown30.summary.icon = ShownAs(key)
            /\ CASE key \in {"query", "content", "message", "command"} ->
                       CutTo(Shown30.summary.text, value, SUMMARY_MAX)
                 [] key = "page_id" ->
                       Shown30.summary.text = SubSeq(value, 1, Min(PAGE_ID_SHOWN, Len(value)))
                                                \o Ellipsis
                 [] OTHER -> Shown30.summary.text = value
\* the summary shown is the first field of the input, cut to GENERIC_MAX
FromFirstString(input) ==
    /\ Shown30.form = "tool"
    /\ Shown30.summary.icon = "key"
    /\ Shown30.summary.key = input.fields[1].key
    /\ CutTo(Shown30.summary.text, input.fields[1].val.chars, GENERIC_MAX)

\* C30: the tool update is made from the last tool_use entry alone: its
\* summary is that of the first non-empty field in the order query,
\* content, message, page_id, channelId, threadId, path, file_path,
\* command, cut to SUMMARY_MAX characters plus "..." for query, content,
\* message and command; else that of the first string field, cut to
\* GENERIC_MAX characters; else the update is the "running" form.
C30_ToolSummary ==
    (classified /\ ToolEvent(streamMessage)) =>
        LET last == LastTool(streamMessage)
            input == InputOrEmpty(last.input)
        IN  /\ Len(streamResult.calls) = 1
            /\ Shown30.tool = ToolName(IF JsTruthy(last.name)
                                       THEN last.name.chars ELSE UNKNOWN_TOOL)
            /\ IF \E i \in 1..Len(SummaryOrder) : Present(input, SummaryOrder[i])
               THEN FromFirstPresent(input)
               ELSE IF input.fields # <<>>
               THEN FromFirstString(input)
               ELSE Shown30.form = "toolRunning" /\ Shown30.summary = NoSummary

C30_Witness ==
    /\ classified
    /\ ToolEvent(streamMessage)
    /\ Len(LastTool(streamMessage).input.fields) = 2
    /\ LastTool(streamMessage).input.fields[1].key = "command"
    /\ LastTool(streamMessage).input.fields[2].key = "query"
    /\ Shown30.summary.icon = "search"

\* ----------------------------------------------------------------- C31
\* the timers of session s the step armed
NewlyArmed(s) == timers'[s] \ timers[s]

\* C31: a session never has more than one debounce timer armed: a timer
\* armed by updateProgress takes the place of the one armed before, it is
\* the one pendingEditTimer names, and its deadline is EDIT_DEBOUNCE_MS
\* after the lastEditTime of the call that armed it.
C31_OneTimerAtDeadline ==
    /\ [](\A s \in Sessions : Cardinality(timers[s]) <= 1)
    /\ [][\A s \in Sessions : \A t \in NewlyArmed(s) :
             /\ timers'[s] = {t}
             /\ pendingEditTimer'[s] = t.id
             /\ lastEditTime'[s] = lastEditTime[s]
             /\ t.deadline = lastEditTime[s] + EDIT_DEBOUNCE_MS]_vars

C31_Witness ==
    \E s \in Sessions : \E t \in timers[s] :
        /\ t.id = 2
        /\ pendingEditTimer[s] = 2
        /\ t.deadline = lastEditTime[s] + EDIT_DEBOUNCE_MS
        /\ t.deadline > now
        /\ Len(updates[s]) = 3
        /\ Len(edits[s]) = 1
        /\ Last(updates[s]).at > lastEditTime[s]

\* ----------------------------------------------------------------- C32
\* the handler went on with progressMsg null: the placeholder was not sent
SendFailed(s) ==
    /\ pc[s] \notin {"idle", "typing", "sending", "sent"}
    /\ ~progressMsg[s]

\* C32: in a session whose placeholder could not be sent, updateProgress
\* does nothing (no edit is issued, no text is pending, no timer is or was
\* armed) and no delete is issued; when the handler is done the session is
\* COMPLETED, CANCELLED or FAILED and its cleanup has run once.
C32_NoPlaceholderNoProgress ==
    \A s \in Sessions : SendFailed(s) =>
        /\ edits[s] = <<>>
        /\ inFlight[s] = 0
        /\ pendingEditText[s] = NullText
        /\ pendingEditTimer[s] = 0
        /\ timers[s] = {}
        /\ timerSeq[s] = 0
        /\ lastEditTime[s] = 0
        /\ deletes[s] = 0
        /\ placeholder[s] = "none"
        /\ pc[s] = "done" =>
              /\ terminal[s] \in {"COMPLETED", "CANCELLED", "FAILED"}
              /\ cleanups[s] = 1

C32_Witness ==
    \E s \in Sessions :
        /\ SendFailed(s)
        /\ Len(updates[s]) = 2
        /\ updates[s][2].at > updates[s][1].at
        /\ pc[s] = "done"
        /\ terminal[s] = "COMPLETED"
        /\ replies[s] = 1

\* ----------------------------------------------------------------- C33
\* C33: in a session whose task raised no delete of the placeholder is
\* issued and nothing is replied: the finally block ran once (keepalive
\* cleared, no debounce timer armed, token unregistered), the dispatch
\* layer reported the error once, and the placeholder, if it was sent, is
\* still there.
C33_FailedLeavesPlaceholder ==
    \A s \in Sessions : terminal[s] = "FAILED" =>
        /\ deletes[s] = 0
        /\ deleteAt[s] = 0
        /\ replies[s] = 0
        /\ placeholder[s] = (IF progressMsg[s] THEN "live" ELSE "none")
        /\ cleanups[s] = 1
        /\ ~typingInterval[s]
        /\ timers[s] = {}
        /\ cancelId[s] \notin DOMAIN cancelCallbacks
        /\ errorReports[s] = 1
        /\ exit[s] = "threw"
        /\ pc[s] \in {"reporting", "done"}

C33_Witness ==
    \E s \in Sessions :
        /\ terminal[s] = "FAILED"
        /\ pc[s] = "done"
        /\ placeholder[s] = "live"
        /\ Len(edits[s]) >= 1
        /\ pendingEditTimer[s] # 0
        /\ clearedDue[s] = FALSE
        /\ Truthy(pendingEditText[s])

\* ----------------------------------------------------------------- C34
\* the step handled a reset request
ResetHandled == resets' = resets + 1

\* C34: a reset request empties channelSessions, for every channel, and
\* replies once; it opens no session: no handler invocation moves, no
\* keepalive interval, token, placeholder or task result comes to be, and
\* the sessions in flight and the registry are as they were.
C34_ResetOpensNoSession ==
    [][ResetHandled =>
          /\ \A c \in Channels : channelSessions'[c] = 0
          /\ resetAcks' = resetAcks + 1
          /\ UNCHANGED <<pc, setupVars, debounceVars, typingVars, editVars,
                         registryVars, clickVars, outVars, taskResult>>]_vars

C34_Witness ==
    /\ resets = 1
    /\ resetAcks = 1
    /\ \A c \in Channels : channelSessions[c] = 0
    /\ \E s \in Sessions :
          /\ pc[s] = "done"
          /\ taskResult[s].sessionId = s
          /\ ~sawReset[s]
    /\ \E s \in Sessions :
          /\ pc[s] = "running"
          /\ sawReset[s]
          /\ cancelId[s] \in DOMAIN cancelCallbacks
          /\ typingInterval[s]

\* ----------------------------------------------------------------- C35
\* the step ended the task of session s, with a result or a raise
TaskEnded(s) == taskResult'[s] # taskResult[s]
\* ... with a result that carries a session id
CarriesSessionId(s) ==
    /\ TaskEnded(s)
    /\ taskResult'[s].kind = "result"
    /\ taskResult'[s].sessionId # 0

\* C35: channelSessions is written by the return of a task whose result
\* carries a session id, cancelled or not, which puts that id in the
\* channel of its mention over whatever was there and leaves the other
\* channels alone; a result without a session id and a raise leave the map
\* as it is, and apart from a reset nothing else changes it.
C35_LastWriterWins ==
    [][/\ \A s \in Sessions : TaskEnded(s) =>
             channelSessions' =
                 IF CarriesSessionId(s)
                 THEN [channelSessions EXCEPT ![channelId[s]] = taskResult'[s].sessionId]
                 ELSE channelSessions
       /\ channelSessions' # channelSessions =>
             \/ ResetHandled
             \/ \E s \in Sessions : CarriesSessionId(s)]_vars

C35_Witness ==
    /\ resets = 1
    /\ channelId[1] = channelId[2]
    /\ \A s \in Pair :
          /\ sawReset[s]
          /\ pc[s] = "done"
          /\ taskResult[s].sessionId = s
    /\ terminal[1] = "CANCELLED"
    /\ terminal[2] = "COMPLETED"
    /\ channelSessions[channelId[1]] = 1

====
